---- MODULE Spec2Model ----
(***************************************************************************)
(* YouTube Feed Organizer: the service worker's capture cycle              *)
(* (handleCaptureVideos), the storage manager's merge (saveVideos, with    *)
(* checkAndEvictIfNeeded and updateCaptureHistory) and the reset           *)
(* (clearVideos), over a model of chrome.storage.local.                    *)
(*                                                                         *)
(* Every await of the code is a step of its own: the store is read and     *)
(* written only at those steps, and what a reader of the store can see     *)
(* between two steps is a state of this model.                             *)
(***************************************************************************)
EXTENDS Integers, Sequences, FiniteSets, TLC

(***************************************************************************)
(* Bounds of the model.                                                    *)
(***************************************************************************)
\* longest list of records one capture hands to saveVideos
MaxBatch == 2
\* number of calls of saveVideos in a behaviour of Spec
MaxMerges == 2
\* number of calls of saveVideos in a behaviour of SpecHistory
MaxHistoryMerges == 52
\* longest list of identifiers handed to fetchVideoDetails: three chunks
MaxIds == 101

\* captures triggered from the feed pages in a behaviour of SpecRouter
MaxTriggers == 3

\* the open feed pages: every click on the extension icon opens one more
FeedPages == {"feedA", "feedB"}

\* calls of saveVideos in a behaviour of SpecRace
MaxRaceMerges == 2

\* the handleCaptureVideos calls that may be pending at once
Invocations == {"first", "second"}

\* largest number of videos a quota estimate is asked for
MaxVideoCount == 120

\* most records handed to checkAndEvictIfNeeded taken alone
MaxEvictCount == 4
MaxScrollCount == 2
MaxMessages == 3

\* video identifiers
Ids == {"abc", "xyz", "pqr"}
\* what the remote API reports for a video: its view count, and the size in
\* bytes its record takes in the store (4.25 MB and 4.5 MB: two records are
\* enough to pass the warning threshold)
Payloads == {[viewCount |-> 10, bytes |-> 4456448],
             [viewCount |-> 20, bytes |-> 4718592]}

(***************************************************************************)
(* Program constants (src/src/shared/constants.js and literals).           *)
(***************************************************************************)
MAX_SIZE_BYTES == 10 * 1024 * 1024
\* WARNING_THRESHOLD * 100 and EVICTION_TARGET * 100, in percent
WARNING_THRESHOLD_PCT == 80
EVICTION_TARGET_PCT == 60
DEFAULT_MAX_STORED_VIDEOS == 500
HISTORY_LIMIT == 50
BATCH_SIZE == 50
REQUEST_COST == 1
DEFAULT_SETTINGS == [apiKey |-> "", maxStoredVideos |-> DEFAULT_MAX_STORED_VIDEOS]

VARIABLES
  videos,         \* store key 'videos'
  lastCapture,    \* store key 'lastCaptureTimestamp'
  history,        \* store key 'captureHistory'
  settings,       \* store key 'settings': << >> when never saved, else <<s>>
  now,            \* the wall clock: every reading of Date.now() is one later
  pc,             \* where the service worker's capture handler stands
  newVideos,      \* saveVideos: its argument, until it has been merged
  newLength,      \* saveVideos: newVideos.length, its only use after the merge
  existingVideos, \* saveVideos: what getVideos() returned
  before,         \* saveVideos: the three keys it writes, as its first read found them
  uniqueVideos,   \* saveVideos: merged, deduplicated, sorted
  maxVideos,      \* saveVideos: the ceiling read from the settings
  videosToStore,  \* saveVideos: after the count ceiling
  usage,          \* checkAndEvictIfNeeded: usage.percentage, in hundredths
  evictedVideos,  \* checkAndEvictIfNeeded: its return value
  trimmedHistory, \* updateCaptureHistory: the list it is about to write
  broadcasts,     \* notifications sent to the feed pages in this cycle
  responses,      \* sendResponse calls in this cycle
  response,       \* the error of the last sendResponse, "" when it had none
  merges,         \* calls of saveVideos so far
  recorded,       \* every history entry appended since the last reset
  fpc,            \* fetchVideoDetails: where the call stands
  videoIds,       \* fetchVideoDetails: its first argument
  apiKey,         \* fetchVideoDetails: its second argument
  chunks,         \* fetchVideoDetails: chunkArray(videoIds, BATCH_SIZE)
  chunkAt,        \* fetchVideoDetails: index of the chunk of this iteration
  batch,          \* fetchVideoDetails: videos, the records of this chunk
  allVideos,      \* fetchVideoDetails: the accumulated records
  requests,       \* every call of fetch() so far: endpoint and identifiers
  succeeded,      \* the item lists of the detail requests that succeeded
  channelResponse, \* how the last request of fetchChannelDetails ended
  thrown,         \* the message of the Error the call threw, "" when none
  qpc,            \* the query: which applyFilters has run, if any
  collection,     \* the query: the collection read from the store
  filters,        \* the query: filters (storage manager), currentFilters (feed page)
  result,         \* the query: the list returned (filteredVideos on the feed page)
  modal,          \* feed pages: captureModal.style.display of every open page
  captures,       \* every capture triggered so far: its page and how far it got
  inv,            \* overlapping saveVideos calls: the locals of every call
  writes,         \* overlapping saveVideos calls: set() calls of the 'videos' key so far
  started,        \* overlapping saveVideos calls: calls made so far
  videoCount,     \* estimateQuotaUsage: its argument, << >> before any call
  quotaUsage,     \* estimateQuotaUsage: its return value
  vpc,            \* handleValidateApiKey: where the call stands
  testKey,        \* validateApiKey: its argument
  testResponse,   \* validateApiKey: how fetch(testUrl) and response.json() settled
  isValid,        \* handleValidateApiKey: what await validateApiKey(apiKey) gave
  validation,     \* handleValidateApiKey: the object handed to sendResponse
  eviction,       \* checkAndEvictIfNeeded: videos.length, usage.percentage, targetCount
  parsed,         \* parseApiResponse: a snippet, its record, the record after the merge
  scroll,         \* content script: the locals of autoScroll and what it has sent
  message         \* service worker: the message being routed and its sendResponse calls

vars == <<videos, lastCapture, history, settings, now, pc, newVideos, newLength,
          existingVideos, before, uniqueVideos, maxVideos, videosToStore, usage,
          evictedVideos, trimmedHistory, broadcasts, responses, response, merges,
          recorded, fpc, videoIds, apiKey, chunks, chunkAt, batch, allVideos,
          requests, succeeded, channelResponse, thrown, qpc, collection, filters, result,
          modal, captures, inv, writes, started, videoCount, quotaUsage, vpc,
          testKey, testResponse, isValid, validation, eviction,
          parsed, scroll, message>>

store == <<videos, lastCapture, history, settings>>
locals == <<newVideos, newLength, existingVideos, before, uniqueVideos, maxVideos, videosToStore,
            usage, evictedVideos, trimmedHistory>>

\* the state of the API handler (fetchVideoDetails)
apiVars == <<fpc, videoIds, apiKey, chunks, chunkAt, batch, allVideos, requests,
             succeeded, channelResponse, thrown>>
\* the state of the service worker's capture handler and of the store
captureVars == <<store, pc, locals, broadcasts, responses, response, merges, recorded>>
\* the state of a query of the collection (getVideos(filters), feed page)
queryVars == <<qpc, collection, filters, result>>
\* the feed pages and the captures they have triggered
routerVars == <<modal, captures>>
\* the functions of the storage manager and of the parser taken alone
pureVars == <<eviction, parsed>>
\* the quota estimate and the validation of a key
quotaVars == <<videoCount, quotaUsage>>
validateVars == <<vpc, testKey, testResponse, isValid, validation>>
keyVars == <<quotaVars, validateVars>>
\* the saveVideos calls that may overlap
raceVars == <<inv, writes, started>>
\* the scroll loop of the content script and the routing of one message
scriptVars == <<scroll, message>>
\* what the steps of the capture handler and of the store leave alone
outside == <<pureVars, scriptVars, apiVars, queryVars, routerVars, raceVars, keyVars>>
\* what the steps of fetchVideoDetails leave alone, the clock apart
outsideApi == <<pureVars, scriptVars, captureVars, queryVars, routerVars, raceVars, keyVars>>
\* what the steps of a query leave alone
outsideQuery == <<pureVars, scriptVars, captureVars, now, apiVars, routerVars, raceVars, keyVars>>
\* what the steps of the message router leave alone
outsideRouter == <<pureVars, scriptVars, captureVars, now, apiVars, queryVars, raceVars, keyVars>>
\* what the steps of overlapping saveVideos calls leave alone: the settings,
\* the capture handler of Spec and every other component
outsideRace == <<pureVars, scriptVars, settings, pc, locals, broadcasts, responses, response, merges,
                 recorded, apiVars, queryVars, routerVars, keyVars>>
\* what an application of one of them leaves alone
outsidePure == <<scriptVars, captureVars, now, apiVars, queryVars, routerVars, raceVars,
                 quotaVars, validateVars>>
\* what the scroll loop and the routing of a message leave alone
outsideScript == <<pureVars, captureVars, now, apiVars, queryVars, routerVars, raceVars,
                   keyVars>>
\* what the quota estimate and the validation of a key leave alone
outsideKey == <<pureVars, scriptVars, captureVars, now, apiVars, queryVars, routerVars, raceVars>>

(***************************************************************************)
(* Pure helpers.                                                           *)
(***************************************************************************)
Min(a, b) == IF a < b THEN a ELSE b

\* Array.prototype.slice(0, n) for n >= 0
SliceHead(s, n) == SubSeq(s, 1, Min(n, Len(s)))

\* Array.prototype.slice(-n) for n > 0
SliceTail(s, n) == IF Len(s) <= n THEN s ELSE SubSeq(s, Len(s) - n + 1, Len(s))

RECURSIVE DedupFrom(_, _, _)
DedupFrom(array, key, seen) ==
  IF array = << >> THEN << >>
  ELSE IF Head(array)[key] \in seen
       THEN DedupFrom(Tail(array), key, seen)
       ELSE <<Head(array)>> \o DedupFrom(Tail(array), key, seen \cup {Head(array)[key]})

\* deduplicateBy with the membership test dropped: every item is kept
deduplicateByKeepsAll(array, key) == array

RECURSIVE DedupLastFrom(_, _)
DedupLastFrom(array, key) ==
  IF array = << >> THEN << >>
  ELSE IF \E j \in 2..Len(array) : array[j][key] = Head(array)[key]
       THEN DedupLastFrom(Tail(array), key)
       ELSE <<Head(array)>> \o DedupLastFrom(Tail(array), key)

\* deduplicateBy keeping the last item of every key value instead of the first
deduplicateByLastWins(array, key) == DedupLastFrom(array, key)

\* keeps the first item of every key value, in order
deduplicateBy(array, key) == DedupFrom(array, key, {})

\* the comparator (a, b) => b.capturedAt - a.capturedAt says a goes first
\* when it is negative or zero (Array.prototype.sort is stable)
RECURSIVE InsertByCapturedAt(_, _)
InsertByCapturedAt(r, s) ==
  IF s = << >> THEN <<r>>
  ELSE IF Head(s).capturedAt >= r.capturedAt
       THEN <<Head(s)>> \o InsertByCapturedAt(r, Tail(s))
       ELSE <<r>> \o s

\* the sort left out: the merged list is stored in merge order
SortLeftOut(s) == s

RECURSIVE SortNewestFirst(_)
SortNewestFirst(s) ==
  IF s = << >> THEN << >>
  ELSE InsertByCapturedAt(s[Len(s)], SortNewestFirst(SubSeq(s, 1, Len(s) - 1)))

RECURSIVE SumBytes(_)
SumBytes(s) == IF s = << >> THEN 0 ELSE Head(s).bytes + SumBytes(Tail(s))

\* chrome.storage.local.getBytesInUse(): the records dominate the store
BytesInUse(vs) == SumBytes(vs)

\* (bytesInUse / maxBytes * 100).toFixed(2), as hundredths of a percent:
\* bytes * 10000 / maxBytes rounded to the nearest integer, with numerator
\* and denominator divided by 80 to stay within 32-bit integers
UsagePercentage(bytes) ==
  (bytes * (10000 \div 80) + (MAX_SIZE_BYTES \div 80) \div 2)
    \div (MAX_SIZE_BYTES \div 80)

\* usage.percentage > WARNING_THRESHOLD * 100
OverThreshold(pct) == pct > WARNING_THRESHOLD_PCT * 100

\* the ratio taken upside down: usage.percentage / targetPercentage
TargetCountInverted(n, pct) == (n * pct) \div (EVICTION_TARGET_PCT * 100)

\* Math.floor(videos.length * (targetPercentage / usage.percentage))
TargetCount(n, pct) == (n * EVICTION_TARGET_PCT * 100) \div pct

\* { ...DEFAULT_SETTINGS, ...stored }
getSettings(stored) == IF stored = << >> THEN DEFAULT_SETTINGS ELSE stored[1]

\* the credential check stripped from the capture handler
ApiKeyNeverMissing(s) == FALSE

\* !settings.apiKey
ApiKeyMissing(s) == s.apiKey = ""

\* settings.maxStoredVideos || 500
MaxVideos(s) ==
  IF s.maxStoredVideos = 0 THEN DEFAULT_MAX_STORED_VIDEOS ELSE s.maxStoredVideos

\* the ceiling applied one record too late
TrimToMaxOffByOne(unique, limit) ==
  IF Len(unique) > limit + 1 THEN SliceHead(unique, limit + 1) ELSE unique

\* uniqueVideos.length > maxVideos ? uniqueVideos.slice(0, maxVideos) : uniqueVideos
TrimToMax(unique, limit) ==
  IF Len(unique) > limit THEN SliceHead(unique, limit) ELSE unique

\* what saveVideos writes under the 'videos' key
VideosToSave(toStore, evicted) == toStore

\* the count of stored records handed over instead of the input's length
HistoryCountOfStored(length, stored) == Len(stored)

\* the count saveVideos hands to updateCaptureHistory
HistoryCount(length, stored) == length

\* history.slice(0, 50): the oldest entries kept instead of the newest
TrimHistoryKeepsOldest(h) == SliceHead(h, HISTORY_LIMIT)

\* history.slice(-50)
TrimHistory(h) == SliceTail(h, HISTORY_LIMIT)

\* clearVideos with the captureHistory key left out of the write
ClearedKeysWithoutHistory ==
  [videos |-> << >>, lastCaptureTimestamp |-> 0, captureHistory |-> history]

\* the object clearVideos hands to chrome.storage.local.set
ClearedKeys == [videos |-> << >>, lastCaptureTimestamp |-> 0, captureHistory |-> << >>]

(***************************************************************************)
(* Inputs.                                                                 *)
(***************************************************************************)
\* records parsed at clock reading t (capturedAt: Date.now(); the records of
\* one chunk are parsed in one synchronous map)
RecordsAt(ids, t) ==
  {[id |-> i, capturedAt |-> t, viewCount |-> p.viewCount, bytes |-> p.bytes] :
     i \in ids, p \in Payloads}

\* what fetchVideoDetails returns: up to maxLen records in response order
Batches(ids, t, maxLen) == UNION {[1..n -> RecordsAt(ids, t)] : n \in 0..maxLen}

\* what the options page saves: a key with the ceiling left out or set, or
\* the key cleared
SettingsInputs ==
  {[apiKey |-> k, maxStoredVideos |-> m] : k \in {"AIza"}, m \in {0, 1}}
    \cup {[apiKey |-> "", maxStoredVideos |-> 0]}

\* no call of fetchVideoDetails has been made
InitApi ==
  /\ fpc = "idle"
  /\ videoIds = << >>
  /\ apiKey = ""
  /\ chunks = << >>
  /\ chunkAt = 0
  /\ batch = << >>
  /\ allVideos = << >>
  /\ requests = << >>
  /\ succeeded = << >>
  /\ channelResponse = << >>
  /\ thrown = ""

\* no query has been made
InitQuery ==
  /\ qpc = "idle"
  /\ collection = << >>
  /\ filters = << >>
  /\ result = << >>

\* the feed pages are open, no capture has been triggered
InitRouter ==
  /\ modal = [p \in FeedPages |-> "none"]
  /\ captures = << >>

\* the locals of a saveVideos call that has not been made
NoCall ==
  [pc |-> "idle", newVideos |-> << >>, existingVideos |-> << >>,
   uniqueVideos |-> << >>, videosToStore |-> << >>, evictedVideos |-> << >>,
   trimmedHistory |-> << >>, readAfter |-> 0, wroteAs |-> 0]

\* no saveVideos call is pending
InitRace ==
  /\ inv = [i \in Invocations |-> NoCall]
  /\ writes = 0
  /\ started = 0

\* no estimate has been asked for, no key has been validated
InitKey ==
  /\ videoCount = << >>
  /\ quotaUsage = 0
  /\ vpc = "idle"
  /\ testKey = ""
  /\ testResponse = << >>
  /\ isValid = ""
  /\ validation = << >>

\* autoScroll has not been called, no message has arrived
InitScript ==
  /\ scroll = [pc |-> "idle", targetCount |-> 0, previousCount |-> 0, currentCount |-> 0,
               scrollAttempts |-> 0, noNewVideosCount |-> 0, progress |-> 0,
               extracted |-> << >>]
  /\ message = [type |-> "", data |-> "absent", awaiting |-> << >>, sent |-> 0,
                returned |-> TRUE, number |-> 0]

\* no function has been applied yet
InitPure ==
  /\ eviction = << >>
  /\ parsed = << >>

Init ==
  /\ videos = << >>
  /\ lastCapture = 0
  /\ history = << >>
  /\ settings = << >>
  /\ now = 1
  /\ pc = "idle"
  /\ newVideos = << >>
  /\ newLength = 0
  /\ existingVideos = << >>
  /\ before = << >>
  /\ uniqueVideos = << >>
  /\ maxVideos = 0
  /\ videosToStore = << >>
  /\ usage = 0
  /\ evictedVideos = << >>
  /\ trimmedHistory = << >>
  /\ broadcasts = << >>
  /\ responses = 0
  /\ response = ""
  /\ merges = 0
  /\ recorded = << >>
  /\ InitApi
  /\ InitQuery
  /\ InitRouter
  /\ InitRace
  /\ InitKey
  /\ InitPure
  /\ InitScript

\* the handler has returned: its locals are gone
Return ==
  /\ pc' = "idle"
  /\ newVideos' = << >>
  /\ newLength' = 0
  /\ existingVideos' = << >>
  /\ before' = << >>
  /\ uniqueVideos' = << >>
  /\ maxVideos' = 0
  /\ videosToStore' = << >>
  /\ usage' = 0
  /\ evictedVideos' = << >>
  /\ trimmedHistory' = << >>

(***************************************************************************)
(* handleCaptureVideos, up to the call of saveVideos.                      *)
(***************************************************************************)
\* a CAPTURE_VIDEOS message with up to maxIds identifiers arrives
ReceiveCapture(maxIds) ==
  /\ pc = "idle"
  /\ broadcasts' = << >>
  /\ \E n \in 0..maxIds :
       IF n = 0
       THEN /\ responses' = 1
            /\ response' = "No video IDs provided"
            /\ pc' = "idle"
       ELSE /\ responses' = 0
            /\ response' = ""
            /\ pc' = "h_getSettings"
  /\ UNCHANGED <<store, now, locals, merges, recorded>>
  /\ UNCHANGED outside

\* await getSettings() resolves; the credential check
CheckApiKey ==
  /\ pc = "h_getSettings"
  /\ IF ApiKeyMissing(getSettings(settings))
     THEN /\ responses' = responses + 1
          /\ response' = "API key not configured"
          /\ broadcasts' = Append(broadcasts, "CAPTURE_ERROR")
          /\ pc' = "idle"
     ELSE /\ pc' = "h_fetch"
          /\ UNCHANGED <<responses, response, broadcasts>>
  /\ UNCHANGED <<store, now, locals, merges, recorded>>
  /\ UNCHANGED outside

\* await fetchVideoDetails() resolves with one of the lists of fetched;
\* saveVideos is entered when the list has any record
FetchDone(fetched) ==
  /\ pc = "h_fetch"
  /\ \E b \in fetched :
       IF b = << >>
       THEN /\ responses' = responses + 1
            /\ response' = "No videos fetched from API"
            /\ pc' = "idle"
            /\ UNCHANGED <<now, newVideos, newLength, merges>>
       ELSE /\ now' = now + 1
            /\ newVideos' = b
            /\ newLength' = Len(b)
            /\ merges' = merges + 1
            /\ pc' = "s_getVideos"
            /\ UNCHANGED <<responses, response>>
  /\ UNCHANGED <<store, existingVideos, before, uniqueVideos, maxVideos, videosToStore,
                 usage, evictedVideos, trimmedHistory, broadcasts, recorded>>
  /\ UNCHANGED outside

\* getSettings() rejects: only handleMessage's catch sees it
SettingsReadFails ==
  /\ pc = "h_getSettings"
  /\ responses' = responses + 1
  /\ response' = "store error"
  /\ pc' = "idle"
  /\ UNCHANGED <<store, now, locals, broadcasts, merges, recorded>>
  /\ UNCHANGED outside

(***************************************************************************)
(* saveVideos.                                                             *)
(***************************************************************************)
\* await getVideos() resolves; merge, deduplicate, sort
MergeAndSort ==
  /\ pc = "s_getVideos"
  /\ existingVideos' = videos
  /\ before' = <<videos, lastCapture, history>>
  /\ uniqueVideos' = SortNewestFirst(deduplicateBy(videos \o newVideos, "id"))
  /\ newVideos' = << >>
  /\ pc' = "s_getSettings"
  /\ UNCHANGED <<store, now, newLength, maxVideos, videosToStore, usage,
                 evictedVideos, trimmedHistory, broadcasts, responses, merges,
                 recorded>>
  /\ UNCHANGED <<response, outside>>

\* await getSettings() resolves; the count ceiling
TrimToLimit ==
  /\ pc = "s_getSettings"
  /\ maxVideos' = MaxVideos(getSettings(settings))
  /\ videosToStore' = TrimToMax(uniqueVideos, maxVideos')
  /\ pc' = "s_usage"
  /\ UNCHANGED <<store, now, newVideos, newLength, existingVideos, before, uniqueVideos, usage,
                 evictedVideos, trimmedHistory, broadcasts, responses, merges,
                 recorded>>
  /\ UNCHANGED <<response, outside>>

\* checkAndEvictIfNeeded: await getStorageUsage() resolves
CheckUsage ==
  /\ pc = "s_usage"
  /\ usage' = UsagePercentage(BytesInUse(videos))
  /\ IF OverThreshold(usage')
     THEN /\ pc' = "s_evict"
          /\ evictedVideos' =
               SliceHead(videosToStore, TargetCount(Len(videosToStore), usage'))
     ELSE /\ pc' = "s_save"
          /\ evictedVideos' = videosToStore
  /\ UNCHANGED <<store, now, newVideos, newLength, existingVideos, before, uniqueVideos, maxVideos,
                 videosToStore, trimmedHistory, broadcasts, responses, merges,
                 recorded>>
  /\ UNCHANGED <<response, outside>>

\* checkAndEvictIfNeeded: the eviction write
EvictWrite ==
  /\ pc = "s_evict"
  /\ videos' = evictedVideos
  /\ pc' = "s_save"
  /\ UNCHANGED <<lastCapture, history, settings, now, locals, broadcasts,
                 responses, merges, recorded>>
  /\ UNCHANGED <<response, outside>>

\* saveVideos: the write of the collection and of the last-capture timestamp
SaveWrite ==
  /\ pc = "s_save"
  /\ now' = now + 1
  /\ videos' = VideosToSave(videosToStore, evictedVideos)
  /\ lastCapture' = now'
  /\ pc' = "s_history"
  /\ UNCHANGED <<history, settings, locals, broadcasts, responses, merges,
                 recorded>>
  /\ UNCHANGED <<response, outside>>

\* updateCaptureHistory: the read resolves; push and trim
HistoryRead ==
  /\ pc = "s_history"
  /\ now' = now + 1
  /\ trimmedHistory' =
       TrimHistory(Append(history,
         [timestamp |-> now', videoCount |-> HistoryCount(newLength, videosToStore)]))
  /\ pc' = "s_historyWrite"
  /\ UNCHANGED <<store, newVideos, newLength, existingVideos, before, uniqueVideos, maxVideos,
                 videosToStore, usage, evictedVideos, broadcasts, responses,
                 merges, recorded>>
  /\ UNCHANGED <<response, outside>>

\* updateCaptureHistory: the write; saveVideos returns and the handler
\* reports the capture as complete
HistoryWrite ==
  /\ pc = "s_historyWrite"
  /\ history' = trimmedHistory
  /\ recorded' = Append(recorded,
       [timestamp |-> now, videoCount |-> HistoryCount(newLength, videosToStore)])
  /\ broadcasts' = Append(broadcasts, "CAPTURE_COMPLETE")
  /\ responses' = responses + 1
  /\ Return
  /\ UNCHANGED <<videos, lastCapture, settings, now, merges>>
  /\ UNCHANGED <<response, outside>>

\* a store read or write of saveVideos rejects: handleCaptureVideos' catch
StoreFails ==
  /\ pc \in {"s_getVideos", "s_getSettings", "s_usage", "s_evict", "s_save",
              "s_history", "s_historyWrite"}
  /\ broadcasts' = Append(broadcasts, "CAPTURE_ERROR")
  /\ responses' = responses + 1
  /\ response' = "store error"
  /\ Return
  /\ UNCHANGED <<store, now, merges, recorded>>
  /\ UNCHANGED outside

(***************************************************************************)
(* Other writers of the store.                                             *)
(***************************************************************************)
\* clearVideos: one set() of the three keys
ClearVideos ==
  /\ pc = "idle"
  /\ videos' = ClearedKeys.videos
  /\ lastCapture' = ClearedKeys.lastCaptureTimestamp
  /\ history' = ClearedKeys.captureHistory
  /\ recorded' = << >>
  /\ UNCHANGED <<settings, now, pc, locals, broadcasts, responses, merges>>
  /\ UNCHANGED <<response, outside>>

\* saveSettings: the settings are overwritten wholesale
SaveSettings ==
  /\ pc = "idle"
  /\ \E s \in SettingsInputs : settings' = <<s>>
  /\ UNCHANGED <<videos, lastCapture, history, now, pc, locals, broadcasts,
                 responses, merges, recorded>>
  /\ UNCHANGED <<response, outside>>

Next ==
  \/ merges < MaxMerges /\ ReceiveCapture(MaxBatch)
  \/ CheckApiKey
  \/ FetchDone(Batches(Ids, now + 1, MaxBatch))
  \/ MergeAndSort
  \/ TrimToLimit
  \/ CheckUsage
  \/ EvictWrite
  \/ SaveWrite
  \/ HistoryRead
  \/ HistoryWrite
  \/ ClearVideos
  \/ SaveSettings

\* the store answers every read and write
Spec == Init /\ [][Next]_vars

\* the store may reject any read or write of the capture handler
NextFaulty ==
  \/ Next
  \/ SettingsReadFails
  \/ StoreFails

SpecFaulty == Init /\ [][NextFaulty]_vars

(***************************************************************************)
(* The capture history over many merges: one identifier is captured again  *)
(* and again, one record per capture.                                      *)
(***************************************************************************)
HistoryBatches(t) ==
  {<<[id |-> "abc", capturedAt |-> t, viewCount |-> 10, bytes |-> b]>> :
     b \in {4456448, 9437184}}

NextHistory ==
  \/ merges < MaxHistoryMerges /\ ReceiveCapture(1)
  \/ CheckApiKey
  \/ FetchDone(HistoryBatches(now + 1))
  \/ MergeAndSort
  \/ TrimToLimit
  \/ CheckUsage
  \/ EvictWrite
  \/ SaveWrite
  \/ HistoryRead
  \/ HistoryWrite
  \/ ClearVideos
  \/ SaveSettings

SpecHistory == Init /\ [][NextHistory]_vars

(***************************************************************************)
(* The API handler: fetchVideoDetails.  The remote API is the environment: *)
(* an identifier stands for the item the API holds for it, and a response  *)
(* is the list of the identifiers of its items.                            *)
(***************************************************************************)
RECURSIVE ChunksFrom(_, _, _)
ChunksFrom(array, size, i) ==
  IF i >= Len(array) THEN << >>
  ELSE <<SubSeq(array, i + 1, Min(i + size, Len(array)))>>
         \o ChunksFrom(array, size, i + size)

RECURSIVE FullChunksFrom(_, _, _)
FullChunksFrom(array, size, i) ==
  IF i + size > Len(array) THEN << >>
  ELSE <<SubSeq(array, i + 1, i + size)>> \o FullChunksFrom(array, size, i + size)

\* chunkArray with the loop stopped at the last full chunk: the remainder
\* is never sent
chunkArrayDropsRemainder(array, size) == FullChunksFrom(array, size, 0)

\* for (let i = 0; i < array.length; i += size) chunks.push(array.slice(i, i + size))
chunkArray(array, size) == ChunksFrom(array, size, 0)

Reverse(s) == [k \in 1..Len(s) |-> s[Len(s) + 1 - k]]

\* snippet.channelId of the item the API holds for an identifier
ChannelOf(id) == IF id % 2 = 0 THEN "UC0" ELSE "UC1"

\* parseApiResponse: one record per item, in the order of the response
parseApiResponse(items, t) ==
  [k \in 1..Len(items) |->
     [id |-> items[k], channelId |-> ChannelOf(items[k]), regionCode |-> "unknown",
      capturedAt |-> t]]

\* how the detail request of a chunk can end: it fails (the network, a
\* status that is not ok, a body that is no JSON), or it succeeds with the
\* items of all, none or all of the identifiers in another order
DetailResponses(chunk) ==
  {[ok |-> FALSE, items |-> << >>], [ok |-> TRUE, items |-> chunk],
   [ok |-> TRUE, items |-> << >>], [ok |-> TRUE, items |-> Reverse(chunk)]}

\* how the channel request can end: fetch rejects; the status is not ok;
\* the body is no JSON; an item of the body has no snippet; the body holds
\* the channels with the country the API has for them, or with none
ChannelResponses ==
  {[status |-> "rejected", body |-> "", country |-> ""],
   [status |-> "not ok", body |-> "items", country |-> "JP"],
   [status |-> "ok", body |-> "not JSON", country |-> ""],
   [status |-> "ok", body |-> "item without snippet", country |-> "JP"],
   [status |-> "ok", body |-> "items", country |-> "JP"],
   [status |-> "ok", body |-> "items", country |-> ""]}

\* fetchChannelDetails reading the body whatever the status and keeping
\* what it has read of it
fetchChannelDetailsKeepsWhatItRead(r) == r.country

\* fetchChannelDetails: the country channelMap holds for the channels of
\* the chunk, "" when it holds none or the map is {}
fetchChannelDetails(r) ==
  IF r.status = "ok" /\ r.body = "items" THEN r.country ELSE ""

\* [...new Set(videos.map(v => v.channelId))]
ChannelIds(vs) == {vs[k].channelId : k \in DOMAIN vs}

\* videos.forEach: channel.country overwrites regionCode
MergeCountry(vs, country) ==
  [k \in DOMAIN vs |->
     IF country # "" THEN [vs[k] EXCEPT !.regionCode = country] ELSE vs[k]]

VideoRequest(chunk) == [endpoint |-> "videos", ids |-> chunk]

\* the catch inside the loop gives up on the rest of the list
AbortAfterFailure(i, n) == n + 1

\* the catch inside the loop: the for-of goes on with the chunk after chunk i
NextChunkAfterFailure(i, n) == i + 1

\* the loop going on with the detail request of a chunk sent a second time
AdvanceSendsTwice(cs, nextAt) ==
  IF nextAt <= Len(cs)
  THEN /\ chunkAt' = nextAt
       /\ requests' = requests \o <<VideoRequest(cs[nextAt]), VideoRequest(cs[nextAt])>>
       /\ fpc' = "videos"
  ELSE /\ fpc' = "done"
       /\ UNCHANGED <<chunkAt, requests>>

\* the loop over the chunks cs goes on with chunk nextAt: its detail request
\* is issued, or the loop is over and allVideos is returned
Advance(cs, nextAt) ==
  IF nextAt <= Len(cs)
  THEN /\ chunkAt' = nextAt
       /\ requests' = Append(requests, VideoRequest(cs[nextAt]))
       /\ fpc' = "videos"
  ELSE /\ fpc' = "done"
       /\ UNCHANGED <<chunkAt, requests>>

\* fetchVideoDetails(videoIds, apiKey) is called with up to maxIds
\* identifiers: the two early exits, the chunking, the first request
CallFetch(maxIds) ==
  /\ fpc = "idle"
  /\ \E n \in 0..maxIds, key \in {"", "AIza"} :
       /\ videoIds' = [i \in 1..n |-> i]
       /\ apiKey' = key
       /\ IF n = 0
          THEN /\ fpc' = "done"
               /\ UNCHANGED <<chunks, chunkAt, requests, thrown>>
          ELSE IF key = ""
          THEN /\ fpc' = "threw"
               /\ thrown' = "API key is required"
               /\ UNCHANGED <<chunks, chunkAt, requests>>
          ELSE /\ chunks' = chunkArray(videoIds', BATCH_SIZE)
               /\ Advance(chunks', 1)
               /\ UNCHANGED thrown
  /\ UNCHANGED <<batch, allVideos, succeeded, channelResponse, now, outsideApi>>

\* await fetchVideoBatch(chunk, apiKey) settles
VideosRespond ==
  /\ fpc = "videos"
  /\ \E r \in DetailResponses(chunks[chunkAt]) :
       IF ~r.ok
       THEN /\ Advance(chunks, NextChunkAfterFailure(chunkAt, Len(chunks)))
            /\ UNCHANGED <<batch, allVideos, succeeded, now>>
       ELSE /\ now' = now + 1
            /\ succeeded' = Append(succeeded, r.items)
            /\ batch' = parseApiResponse(r.items, now')
            /\ IF ChannelIds(batch') # {}
               THEN /\ requests' =
                         Append(requests,
                                [endpoint |-> "channels", ids |-> ChannelIds(batch')])
                    /\ fpc' = "channels"
                    /\ UNCHANGED <<chunkAt, allVideos>>
               ELSE /\ allVideos' = allVideos \o batch'
                    /\ IF Len(chunks) > 1
                       THEN fpc' = "sleep" /\ UNCHANGED <<chunkAt, requests>>
                       ELSE Advance(chunks, chunkAt + 1)
  /\ UNCHANGED <<videoIds, apiKey, chunks, channelResponse, thrown, outsideApi>>

\* await fetchChannelDetails(channelIds, apiKey) resolves; merge and push
ChannelsRespond ==
  /\ fpc = "channels"
  /\ \E r \in ChannelResponses :
       /\ channelResponse' = r
       /\ allVideos' = allVideos \o MergeCountry(batch, fetchChannelDetails(r))
  /\ IF Len(chunks) > 1
     THEN fpc' = "sleep" /\ UNCHANGED <<chunkAt, requests>>
     ELSE Advance(chunks, chunkAt + 1)
  /\ UNCHANGED <<videoIds, apiKey, chunks, batch, succeeded, thrown, now, outsideApi>>

\* await sleep(150) resolves
SleepDone ==
  /\ fpc = "sleep"
  /\ Advance(chunks, chunkAt + 1)
  /\ UNCHANGED <<videoIds, apiKey, chunks, batch, allVideos, succeeded,
                 channelResponse, thrown, now, outsideApi>>

NextFetch ==
  \/ CallFetch(MaxIds)
  \/ VideosRespond
  \/ ChannelsRespond
  \/ SleepDone

SpecFetch == Init /\ [][NextFetch]_vars

(***************************************************************************)
(* The query: applyFilters and sortVideos of the storage manager (behind   *)
(* getVideos(filters)) and of the feed page.  A string is the sequence of  *)
(* its characters.                                                         *)
(***************************************************************************)
\* longest collection a query reads
MaxCollection == 3

\* String.prototype.toLowerCase, character by character
LowerChar(c) == IF c = "A" THEN "a" ELSE IF c = "B" THEN "b" ELSE c
toLowerCase(str) == [k \in DOMAIN str |-> LowerChar(str[k])]

\* String.prototype.includes
StrIncludes(str, sub) ==
  \E k \in 0..Len(str) : k + Len(sub) <= Len(str) /\ SubSeq(str, k + 1, k + Len(sub)) = sub

\* the collation rank of a letter, and of its case (lower case first)
LetterRank(c) == IF LowerChar(c) = "a" THEN 1 ELSE 2
CaseRank(c) == IF c = LowerChar(c) THEN 0 ELSE 1

\* the sign of the lexicographic comparison of two sequences of numbers
RECURSIVE LexCompare(_, _)
LexCompare(x, y) ==
  IF x = << >> THEN (IF y = << >> THEN 0 ELSE -1)
  ELSE IF y = << >> THEN 1
  ELSE IF Head(x) < Head(y) THEN -1
  ELSE IF Head(x) > Head(y) THEN 1
  ELSE LexCompare(Tail(x), Tail(y))

\* a.localeCompare(b): the letters decide, and the case where they agree
localeCompare(a, b) ==
  LET letters == LexCompare([k \in DOMAIN a |-> LetterRank(a[k])],
                            [k \in DOMAIN b |-> LetterRank(b[k])])
  IN IF letters # 0 THEN letters
     ELSE LexCompare([k \in DOMAIN a |-> CaseRank(a[k])],
                     [k \in DOMAIN b |-> CaseRank(b[k])])

\* the comparator of sortVideos for a sort key: negative or zero when a
\* may stay in front of b
Comparator(sortBy, a, b) ==
  CASE sortBy = "views" -> b.viewCount - a.viewCount
    [] sortBy = "title" -> localeCompare(a.title, b.title)
    [] OTHER -> b.capturedAt - a.capturedAt

\* Array.prototype.sort with that comparator: stable
RECURSIVE InsertBy(_, _, _)
InsertBy(sortBy, r, sorted) ==
  IF sorted = << >> THEN <<r>>
  ELSE IF Comparator(sortBy, Head(sorted), r) <= 0
       THEN <<Head(sorted)>> \o InsertBy(sortBy, r, Tail(sorted))
       ELSE <<r>> \o sorted

RECURSIVE SortWith(_, _)
SortWith(sortBy, vs) ==
  IF vs = << >> THEN << >>
  ELSE InsertBy(sortBy, vs[Len(vs)], SortWith(sortBy, SubSeq(vs, 1, Len(vs) - 1)))

\* sortVideos with the default branch sorting by views
sortVideosDefaultViews(vs, sortBy) ==
  IF sortBy \in {"date", "views", "title"} THEN SortWith(sortBy, vs)
  ELSE SortWith("views", vs)

\* sortVideos of the storage manager: the default branch sorts by date
sortVideos(vs, sortBy) ==
  IF sortBy \in {"date", "views", "title"} THEN SortWith(sortBy, vs)
  ELSE SortWith("date", vs)

\* sortVideos of the feed page: the switch has no default branch
FeedSortVideos(vs, sortBy) ==
  IF sortBy \in {"date", "views", "title"} THEN SortWith(sortBy, vs) ELSE vs

\* the language filter of both applyFilters
LanguageKeeps(v, f) ==
  \/ f.selectedLanguages = {}
  \/ v.defaultLanguage \in f.selectedLanguages
  \/ v.defaultAudioLanguage \in f.selectedLanguages

\* the country filter of both applyFilters
CountryKeeps(v, f) ==
  f.selectedCountries = {} \/ v.regionCode \in f.selectedCountries

\* the search filter of the feed page
SearchKeeps(v, f) ==
  \/ f.searchQuery = << >>
  \/ StrIncludes(toLowerCase(v.title), f.searchQuery)
  \/ StrIncludes(toLowerCase(v.channelTitle), f.searchQuery)

\* applyFilters of the storage manager: languages, countries, then the
\* sort when filters.sortBy is set
applyFilters(vs, f) ==
  LET filtered == SelectSeq(vs, LAMBDA v : LanguageKeeps(v, f) /\ CountryKeeps(v, f))
  IN IF f.sortBy # "" THEN sortVideos(filtered, f.sortBy) ELSE filtered

\* applyFilters of the feed page: the three filters, then sortVideos
FeedApplyFilters(vs, f) ==
  FeedSortVideos(
    SelectSeq(vs, LAMBDA v : LanguageKeeps(v, f) /\ CountryKeeps(v, f) /\ SearchKeeps(v, f)),
    f.sortBy)

\* what the API handler has parsed for four videos, the capture time apart
QueryRecords ==
  {[id |-> "abc", title |-> <<"A", "b">>, channelTitle |-> <<"b">>,
    defaultLanguage |-> "ja", defaultAudioLanguage |-> "ja", regionCode |-> "JP",
    viewCount |-> 10],
   [id |-> "xyz", title |-> <<"a">>, channelTitle |-> <<"B", "a">>,
    defaultLanguage |-> "en", defaultAudioLanguage |-> "ja", regionCode |-> "US",
    viewCount |-> 10],
   [id |-> "pqr", title |-> <<"b">>, channelTitle |-> <<"a">>,
    defaultLanguage |-> "en", defaultAudioLanguage |-> "en", regionCode |-> "US",
    viewCount |-> 20],
   [id |-> "lmn", title |-> <<"a", "b">>, channelTitle |-> <<"b">>,
    defaultLanguage |-> "unknown", defaultAudioLanguage |-> "unknown",
    regionCode |-> "unknown", viewCount |-> 30]}

Stamped(r, t) ==
  [id |-> r.id, title |-> r.title, channelTitle |-> r.channelTitle,
   defaultLanguage |-> r.defaultLanguage,
   defaultAudioLanguage |-> r.defaultAudioLanguage, regionCode |-> r.regionCode,
   viewCount |-> r.viewCount, capturedAt |-> t]

\* the collections saveVideos can have stored: up to maxLen records of
\* distinct identifiers, newest first, captured at one of two times
Collections(maxLen) ==
  UNION {{[k \in 1..n |-> Stamped(rs[k], ts[k])] :
            rs \in {x \in [1..n -> QueryRecords] :
                      \A i, j \in 1..n : x[i].id = x[j].id => i = j},
            ts \in {y \in [1..n -> {1, 2}] :
                      \A i \in 1..n - 1 : y[i] >= y[i + 1]}} :
         n \in 0..maxLen}

\* the search terms typed into the feed page, and sent with a filters object
SearchInputs == {<< >>, <<"a">>, <<"A", "b">>}

\* the filters a GET_VIDEOS message can carry: any sort key, or none
StoreFilters ==
  {[selectedLanguages |-> l, selectedCountries |-> c, searchQuery |-> toLowerCase(q),
    sortBy |-> k] :
     l \in {{}, {"ja"}, {"en", "ja"}}, c \in {{}, {"JP"}, {"US"}},
     q \in SearchInputs, k \in {"", "date", "views", "title", "rating"}}

\* currentFilters of the feed page: handleSearchChange lowers the term, and
\* the sort key is one of the options of the select
FeedFilters ==
  {[selectedLanguages |-> l, selectedCountries |-> c, searchQuery |-> toLowerCase(q),
    sortBy |-> k] :
     l \in {{}, {"ja"}, {"en", "ja"}}, c \in {{}, {"JP"}, {"US"}},
     q \in SearchInputs, k \in {"date", "views", "title"}}

\* chrome.storage.local.get(videos) resolves with a stored collection
LoadCollection(maxLen) ==
  /\ qpc = "idle"
  /\ \E c \in Collections(maxLen) : collection' = c
  /\ qpc' = "loaded"
  /\ UNCHANGED <<filters, result, outsideQuery>>

\* getVideos(filters): applyFilters of the storage manager
GetVideosFiltered ==
  /\ qpc = "loaded"
  /\ \E f \in StoreFilters :
       /\ filters' = f
       /\ result' = applyFilters(collection, f)
  /\ qpc' = "store"
  /\ UNCHANGED <<collection, outsideQuery>>

\* the feed page: allVideos = response.videos, then applyFilters
FeedFiltersApplied ==
  /\ qpc = "loaded"
  /\ \E f \in FeedFilters :
       /\ filters' = f
       /\ result' = FeedApplyFilters(collection, f)
  /\ qpc' = "feed"
  /\ UNCHANGED <<collection, outsideQuery>>

NextQuery ==
  \/ LoadCollection(MaxCollection)
  \/ GetVideosFiltered
  \/ FeedFiltersApplied

SpecQuery == Init /\ [][NextQuery]_vars

(***************************************************************************)
(* The message router: from the Capture button of a feed page to the       *)
(* capture handler of the service worker.  A capture is a record of the    *)
(* page that triggered it and of the stage it has reached; every message   *)
(* in flight and every suspended handler is a stage.  The Capture button   *)
(* is offered only while the page's modal is hidden, the most a page can   *)
(* do to keep its own captures apart.                                      *)
(***************************************************************************)
\* the capture's record with its stage replaced
AtStage(k, stage) == [captures EXCEPT ![k].stage = stage]

\* hideCaptureModal() on one page
HideModal(p) == [modal EXCEPT ![p] = "none"]

\* broadcastToFeedPages of CAPTURE_ERROR or CAPTURE_COMPLETE: every feed
\* page hides its modal
BroadcastEnd == [p \in FeedPages |-> "none"]

\* handleCaptureVideos is suspended at fetchVideoDetails or at saveVideos
InFlight(c) == c.stage \in {"fetching", "merging"}

\* triggerCapture: showCaptureModal(), then TRIGGER_CAPTURE is sent
TriggerCapture(p) ==
  /\ Len(captures) < MaxTriggers
  /\ modal[p] = "none"
  /\ modal' = [modal EXCEPT ![p] = "flex"]
  /\ captures' = Append(captures, [page |-> p, stage |-> "TRIGGER_CAPTURE"])
  /\ UNCHANGED outsideRouter

\* handleTriggerCapture: without a key the page is answered with a failure
\* and hides its modal; with one the content script is sent TRIGGER_CAPTURE,
\* starts handleCaptureRequest without awaiting it, and the page is answered
\* with success
HandleTriggerCapture(k) ==
  /\ captures[k].stage = "TRIGGER_CAPTURE"
  /\ \E configured \in BOOLEAN :
       IF configured
       THEN /\ captures' = AtStage(k, "scraping")
            /\ UNCHANGED modal
       ELSE /\ captures' = AtStage(k, "ended")
            /\ modal' = HideModal(captures[k].page)
  /\ UNCHANGED outsideRouter

\* handleCaptureRequest ends: CAPTURE_ERROR (not the homepage, no video on
\* the page, an exception) or CAPTURE_VIDEOS is sent to the service worker
ContentScriptSends(k) ==
  /\ captures[k].stage = "scraping"
  /\ \E type \in {"CAPTURE_ERROR", "CAPTURE_VIDEOS"} : captures' = AtStage(k, type)
  /\ UNCHANGED <<modal, outsideRouter>>

\* handleMessage, case CAPTURE_ERROR: the message is broadcast
RouteCaptureError(k) ==
  /\ captures[k].stage = "CAPTURE_ERROR"
  /\ captures' = AtStage(k, "ended")
  /\ modal' = BroadcastEnd
  /\ UNCHANGED outsideRouter

\* handleMessage, case CAPTURE_VIDEOS: the listener calls handleMessage for
\* every message as it arrives, whatever the earlier calls are waiting for.
\* handleCaptureVideos runs up to its first await of the network: an empty
\* list is answered to the sender only, a missing key is broadcast, else
\* fetchVideoDetails is awaited
RouteCaptureVideos(k) ==
  /\ captures[k].stage = "CAPTURE_VIDEOS"
  /\ \E early \in {"No video IDs provided", "API key not configured", ""} :
       IF early = ""
       THEN /\ captures' = AtStage(k, "fetching")
            /\ UNCHANGED modal
       ELSE /\ captures' = AtStage(k, "ended")
            /\ modal' = IF early = "API key not configured" THEN BroadcastEnd ELSE modal
  /\ UNCHANGED outsideRouter

\* await fetchVideoDetails settles: no record (answered to the sender
\* only), an exception (broadcast), or records, and saveVideos is awaited
FetchSettles(k) ==
  /\ captures[k].stage = "fetching"
  /\ \E outcome \in {"none", "threw", "videos"} :
       IF outcome = "videos"
       THEN /\ captures' = AtStage(k, "merging")
            /\ UNCHANGED modal
       ELSE /\ captures' = AtStage(k, "ended")
            /\ modal' = IF outcome = "threw" THEN BroadcastEnd ELSE modal
  /\ UNCHANGED outsideRouter

\* await saveVideos settles: CAPTURE_COMPLETE or CAPTURE_ERROR is broadcast
MergeSettles(k) ==
  /\ captures[k].stage = "merging"
  /\ captures' = AtStage(k, "ended")
  /\ modal' = BroadcastEnd
  /\ UNCHANGED outsideRouter

NextRouter ==
  \/ \E p \in FeedPages : TriggerCapture(p)
  \/ \E k \in DOMAIN captures : HandleTriggerCapture(k)
  \/ \E k \in DOMAIN captures : ContentScriptSends(k)
  \/ \E k \in DOMAIN captures : RouteCaptureError(k)
  \/ \E k \in DOMAIN captures : RouteCaptureVideos(k)
  \/ \E k \in DOMAIN captures : FetchSettles(k)
  \/ \E k \in DOMAIN captures : MergeSettles(k)

SpecRouter == Init /\ [][NextRouter]_vars

(***************************************************************************)
(* Overlapping merges: two calls of handleCaptureVideos are pending and    *)
(* each runs saveVideos, with its own locals, over the one store.  Every   *)
(* await of saveVideos is a step, and the steps of the two calls           *)
(* interleave freely.                                                      *)
(***************************************************************************)
\* what fetchVideoDetails hands to saveVideos: one record parsed at t, of
\* 4.25 MB or 4.5 MB, or one of 9 MB that alone passes the warning threshold
RaceBatches(t) ==
  {<<r>> : r \in RecordsAt({"abc", "xyz"}, t)}
    \cup {<<[id |-> "pqr", capturedAt |-> t, viewCount |-> 10, bytes |-> 9437184]>>}

\* set() of the 'videos' key merging into what the key holds
WrittenVideosMergedIn(current, toStore) == deduplicateBy(toStore \o current, "id")

\* chrome.storage.local.set({videos: videosToStore}): the key is replaced,
\* whatever it holds
WrittenVideos(current, toStore) == toStore

\* saveVideos(newVideos) is called with the records of one capture
RaceCall(i) ==
  /\ inv[i].pc \in {"idle", "done"}
  /\ started < MaxRaceMerges
  /\ started' = started + 1
  /\ now' = now + 1
  /\ \E b \in RaceBatches(now') :
       inv' = [inv EXCEPT ![i] = [NoCall EXCEPT !.pc = "s_getVideos", !.newVideos = b]]
  /\ UNCHANGED <<videos, lastCapture, history, writes, outsideRace>>

\* await getVideos() resolves; merge, deduplicate, sort
RaceMergeAndSort(i) ==
  /\ inv[i].pc = "s_getVideos"
  /\ inv' = [inv EXCEPT
       ![i].existingVideos = videos,
       ![i].uniqueVideos = SortNewestFirst(deduplicateBy(videos \o inv[i].newVideos, "id")),
       ![i].readAfter = writes,
       ![i].pc = "s_getSettings"]
  /\ UNCHANGED <<videos, lastCapture, history, now, writes, started, outsideRace>>

\* await getSettings() resolves; the count ceiling
RaceTrimToLimit(i) ==
  /\ inv[i].pc = "s_getSettings"
  /\ inv' = [inv EXCEPT
       ![i].videosToStore =
          TrimToMax(inv[i].uniqueVideos, MaxVideos(getSettings(settings))),
       ![i].pc = "s_usage"]
  /\ UNCHANGED <<videos, lastCapture, history, now, writes, started, outsideRace>>

\* checkAndEvictIfNeeded: await getStorageUsage() resolves
RaceCheckUsage(i) ==
  /\ inv[i].pc = "s_usage"
  /\ LET pct == UsagePercentage(BytesInUse(videos))
         toStore == inv[i].videosToStore
     IN inv' = [inv EXCEPT
          ![i].evictedVideos =
             IF OverThreshold(pct)
             THEN SliceHead(toStore, TargetCount(Len(toStore), pct))
             ELSE toStore,
          ![i].pc = IF OverThreshold(pct) THEN "s_evict" ELSE "s_save"]
  /\ UNCHANGED <<videos, lastCapture, history, now, writes, started, outsideRace>>

\* checkAndEvictIfNeeded: the eviction write
RaceEvictWrite(i) ==
  /\ inv[i].pc = "s_evict"
  /\ videos' = WrittenVideos(videos, inv[i].evictedVideos)
  /\ writes' = writes + 1
  /\ inv' = [inv EXCEPT ![i].pc = "s_save"]
  /\ UNCHANGED <<lastCapture, history, now, started, outsideRace>>

\* saveVideos: the write of the collection and of the last-capture timestamp
RaceSaveWrite(i) ==
  /\ inv[i].pc = "s_save"
  /\ now' = now + 1
  /\ videos' = WrittenVideos(videos, VideosToSave(inv[i].videosToStore, inv[i].evictedVideos))
  /\ lastCapture' = now'
  /\ writes' = writes + 1
  /\ inv' = [inv EXCEPT ![i].wroteAs = writes', ![i].pc = "s_history"]
  /\ UNCHANGED <<history, started, outsideRace>>

\* updateCaptureHistory: the read resolves; push and trim
RaceHistoryRead(i) ==
  /\ inv[i].pc = "s_history"
  /\ now' = now + 1
  /\ inv' = [inv EXCEPT
       ![i].trimmedHistory =
          TrimHistory(Append(history,
            [timestamp |-> now',
             videoCount |-> HistoryCount(Len(inv[i].newVideos), inv[i].videosToStore)])),
       ![i].pc = "s_historyWrite"]
  /\ UNCHANGED <<videos, lastCapture, history, writes, started, outsideRace>>

\* updateCaptureHistory: the write; saveVideos returns
RaceHistoryWrite(i) ==
  /\ inv[i].pc = "s_historyWrite"
  /\ history' = inv[i].trimmedHistory
  /\ inv' = [inv EXCEPT ![i].pc = "done"]
  /\ UNCHANGED <<videos, lastCapture, now, writes, started, outsideRace>>

NextRace ==
  \/ \E i \in Invocations : RaceCall(i)
  \/ \E i \in Invocations : RaceMergeAndSort(i)
  \/ \E i \in Invocations : RaceTrimToLimit(i)
  \/ \E i \in Invocations : RaceCheckUsage(i)
  \/ \E i \in Invocations : RaceEvictWrite(i)
  \/ \E i \in Invocations : RaceSaveWrite(i)
  \/ \E i \in Invocations : RaceHistoryRead(i)
  \/ \E i \in Invocations : RaceHistoryWrite(i)

SpecRace == Init /\ [][NextRace]_vars

(***************************************************************************)
(* The quota estimate (estimateQuotaUsage).                                *)
(***************************************************************************)
\* Math.floor(n / d) in the place of Math.ceil(n / d)
MathFloor(n, d) == n \div d

\* Math.ceil(n / d) for n >= 0, d > 0
MathCeil(n, d) == (n + d - 1) \div d

\* requestCount * REQUEST_COST * 2
estimateQuotaUsage(count) == MathCeil(count, BATCH_SIZE) * REQUEST_COST * 2

\* estimateQuotaUsage(videoCount) is called
EstimateQuota(maxCount) ==
  /\ \E n \in 0..maxCount :
       /\ videoCount' = <<n>>
       /\ quotaUsage' = estimateQuotaUsage(n)
  /\ UNCHANGED <<validateVars, outsideKey>>

NextQuota == EstimateQuota(MaxVideoCount)

SpecQuota == Init /\ [][NextQuota]_vars

(***************************************************************************)
(* The validation of a key (handleValidateApiKey, validateApiKey).  The    *)
(* remote API is the environment: the test request is rejected, or it is   *)
(* answered with a status and a body.  A result is "true", "false",        *)
(* "undefined" (the value of data.items when the body has no items) or     *)
(* "threw" (an exception leaves the function).                             *)
(***************************************************************************)
\* what options.js hands over as the key
TestKeys == {"", "AIza", "wrong"}

\* HTTP statuses of the test request
Statuses == {200, 400, 403, 500}

\* bodies: not JSON, the JSON value null, or a JSON object whose items field
\* is absent (items = -1) or a list of that length
Bodies ==
  {[json |-> "unparsable", items |-> -1], [json |-> "null", items |-> -1]}
    \cup {[json |-> "object", items |-> n] : n \in -1..2}

\* how the test request settles
TestResponses ==
  {[fetch |-> "rejected", status |-> 0, body |-> [json |-> "unparsable", items |-> -1]]}
    \cup {[fetch |-> "resolved", status |-> st, body |-> b] :
            st \in Statuses, b \in Bodies}

\* response.ok
Ok(r) == r.status \in 200..299

\* response.ok left out of the returned expression
TryBodyIgnoresStatus(r) ==
  IF r.fetch = "rejected" \/ r.body.json \in {"unparsable", "null"} THEN "threw"
  ELSE IF r.body.items = -1 THEN "undefined"
  ELSE IF r.body.items > 0 THEN "true" ELSE "false"

\* the try block: await fetch rejects, await response.json() rejects or
\* data.items of null throws; else response.ok && data.items &&
\* data.items.length > 0
TryBody(r) ==
  IF r.fetch = "rejected" \/ r.body.json \in {"unparsable", "null"} THEN "threw"
  ELSE IF ~Ok(r) THEN "false"
  ELSE IF r.body.items = -1 THEN "undefined"
  ELSE IF r.body.items > 0 THEN "true" ELSE "false"

\* catch (error) { return false; }
Catch(outcome) == IF outcome = "threw" THEN "false" ELSE outcome

validateApiKey(r) == Catch(TryBody(r))

\* a VALIDATE_API_KEY message arrives: validateApiKey(apiKey) sends the
\* test request
CallValidate ==
  /\ vpc = "idle"
  /\ \E k \in TestKeys : testKey' = k
  /\ vpc' = "fetch"
  /\ UNCHANGED <<testResponse, isValid, validation, quotaVars, outsideKey>>

\* the test request settles and validateApiKey returns
ValidateSettles ==
  /\ vpc = "fetch"
  /\ \E r \in TestResponses :
       /\ testResponse' = r
       /\ isValid' = validateApiKey(r)
  /\ vpc' = "returned"
  /\ UNCHANGED <<testKey, validation, quotaVars, outsideKey>>

\* handleValidateApiKey answers: its own catch answers an exception
ValidateReplies ==
  /\ vpc = "returned"
  /\ validation' =
       IF isValid = "threw"
       THEN [success |-> FALSE, isValid |-> "undefined", message |-> "error"]
       ELSE [success |-> TRUE, isValid |-> isValid,
             message |-> IF isValid = "true" THEN "API key is valid"
                         ELSE "API key is invalid"]
  /\ vpc' = "replied"
  /\ UNCHANGED <<testKey, testResponse, isValid, quotaVars, outsideKey>>

\* the options page validates again
ValidateAgain ==
  /\ vpc = "replied"
  /\ vpc' = "idle"
  /\ testKey' = ""
  /\ testResponse' = << >>
  /\ isValid' = ""
  /\ validation' = << >>
  /\ UNCHANGED <<quotaVars, outsideKey>>

NextValidate ==
  \/ CallValidate
  \/ ValidateSettles
  \/ ValidateReplies
  \/ ValidateAgain

SpecValidate == Init /\ [][NextValidate]_vars

(***************************************************************************)
(* checkAndEvictIfNeeded taken alone: the target count for every number of *)
(* records and every usage above the warning threshold.  The store holds   *)
(* at most MAX_SIZE_BYTES, so the usage is at most 100.00 percent.         *)
(***************************************************************************)
\* usage.percentage, in hundredths of a percent: above the threshold, at
\* most the whole store
EvictingPercentages == {p \in 0..(100 * 100) : OverThreshold(p)}

\* checkAndEvictIfNeeded(videos) finds the usage above the threshold
ComputeTarget(maxCount) ==
  /\ eviction = << >>
  /\ \E n \in 0..maxCount, p \in EvictingPercentages :
       eviction' = [count |-> n, percentage |-> p, targetCount |-> TargetCount(n, p)]
  /\ UNCHANGED <<parsed, outsidePure>>

NextEvict == ComputeTarget(MaxEvictCount)

SpecEvict == Init /\ [][NextEvict]_vars

(***************************************************************************)
(* parseApiResponse taken alone: the language and region fields of one     *)
(* record, and the merge of the owner's country.  A string is the sequence *)
(* of its character codes (101, 110 is "en"); a field that is absent or    *)
(* empty is << >>, which JavaScript's || skips alike.                      *)
(***************************************************************************)
\* 'unknown'
Unknown == <<117, 110, 107, 110, 111, 119, 110>>

\* a || b for strings
OrElse(a, b) == IF a # << >> THEN a ELSE b

\* String.prototype.toLowerCase on the letters A to Z
LowerOf(code) == [k \in DOMAIN code |-> IF code[k] \in 65..90 THEN code[k] + 32 ELSE code[k]]

\* split('-')[0]: the characters before the first '-'
RECURSIVE BeforeHyphen(_)
BeforeHyphen(code) ==
  IF code = << >> \/ Head(code) = 45 THEN << >>
  ELSE <<Head(code)>> \o BeforeHyphen(Tail(code))

\* normalizeLanguageCode
normalizeLanguageCode(code) ==
  IF code = << >> \/ code = Unknown THEN Unknown ELSE BeforeHyphen(LowerOf(code))

\* /[lo-hi]/.test(title) for the ranges of a character class
HasIn(title, ranges) ==
  \E k \in DOMAIN title : \E r \in ranges : title[k] \in r[1]..r[2]

\* detectLanguageFromTitle: << >> for null
detectLanguageFromTitle(title) ==
  IF title = << >> THEN << >>
  ELSE IF HasIn(title, {<<12352, 12447>>, <<12448, 12543>>, <<19968, 40879>>})
       THEN <<106, 97>>
  ELSE IF HasIn(title, {<<44032, 55215>>}) THEN <<107, 111>>
  ELSE IF HasIn(title, {<<1024, 1279>>}) THEN <<114, 117>>
  ELSE IF HasIn(title, {<<1536, 1791>>}) THEN <<97, 114>>
  ELSE IF HasIn(title, {<<19968, 40959>>}) THEN <<122, 104>>
  ELSE << >>

\* languageToRegion: en es fr de it pt ru ja ko zh ar hi bn pa te mr ta tr vi pl uk nl sv no da fi el cs ro hu th id ms he fa
languageToRegion ==
  {<<<<101, 110>>, "US">>,
   <<<<101, 115>>, "ES">>, <<<<102, 114>>, "FR">>, <<<<100, 101>>, "DE">>,
   <<<<105, 116>>, "IT">>, <<<<112, 116>>, "BR">>, <<<<114, 117>>, "RU">>,
   <<<<106, 97>>, "JP">>, <<<<107, 111>>, "KR">>, <<<<122, 104>>, "CN">>,
   <<<<97, 114>>, "SA">>, <<<<104, 105>>, "IN">>, <<<<98, 110>>, "IN">>,
   <<<<112, 97>>, "IN">>, <<<<116, 101>>, "IN">>, <<<<109, 114>>, "IN">>,
   <<<<116, 97>>, "IN">>, <<<<116, 114>>, "TR">>, <<<<118, 105>>, "VN">>,
   <<<<112, 108>>, "PL">>, <<<<117, 107>>, "UA">>, <<<<110, 108>>, "NL">>,
   <<<<115, 118>>, "SE">>, <<<<110, 111>>, "NO">>, <<<<100, 97>>, "DK">>,
   <<<<102, 105>>, "FI">>, <<<<101, 108>>, "GR">>, <<<<99, 115>>, "CZ">>,
   <<<<114, 111>>, "RO">>, <<<<104, 117>>, "HU">>, <<<<116, 104>>, "TH">>,
   <<<<105, 100>>, "ID">>, <<<<109, 115>>, "MY">>, <<<<104, 101>>, "IL">>,
   <<<<102, 97>>, "IR">>}

\* languageToRegion[language] || null: "" for null
RegionOf(language) ==
  IF \E e \in languageToRegion : e[1] = language
  THEN (CHOOSE e \in languageToRegion : e[1] = language)[2]
  ELSE ""

\* inferRegionCode(snippet): "" for null
inferRegionCode(snippet) ==
  LET language == OrElse(snippet.defaultLanguage, snippet.defaultAudioLanguage)
  IN IF language = << >> THEN "" ELSE RegionOf(language)

\* the audio language resolved by the chain of the content language
AudioLanguageByContentChain(snippet) ==
  normalizeLanguageCode(
    OrElse(snippet.defaultLanguage,
      OrElse(snippet.defaultAudioLanguage,
        OrElse(detectLanguageFromTitle(snippet.title), Unknown))))

\* defaultAudioLanguage of the record
AudioLanguage(snippet) ==
  normalizeLanguageCode(
    OrElse(snippet.defaultAudioLanguage, OrElse(snippet.defaultLanguage, Unknown)))

\* the language and region fields of the record parseApiResponse builds
ParsedRecord(snippet) ==
  [defaultLanguage |->
     normalizeLanguageCode(
       OrElse(snippet.defaultLanguage,
         OrElse(snippet.defaultAudioLanguage,
           OrElse(detectLanguageFromTitle(snippet.title), Unknown)))),
   defaultAudioLanguage |-> AudioLanguage(snippet),
   regionCode |-> IF inferRegionCode(snippet) # "" THEN inferRegionCode(snippet)
                  ELSE "unknown"]

\* videos.forEach: channel.country, when there is one, overwrites regionCode
WithCountry(video, country) ==
  IF country # "" THEN [video EXCEPT !.regionCode = country] ELSE video

\* snippet.defaultLanguage, snippet.defaultAudioLanguage as the API may send
\* them: absent, en, EN, en-US, pt-BR, ja, xx, zh-Hant, -US, unknown
LanguageInputs ==
  {<< >>, <<101, 110>>, <<69, 78>>, <<101, 110, 45, 85, 83>>,
   <<112, 116, 45, 66, 82>>, <<106, 97>>, <<120, 120>>,
   <<122, 104, 45, 72, 97, 110, 116>>, <<45, 85, 83>>, Unknown}

\* snippet.title: absent, or a title in Latin letters, kana, Hangul,
\* Cyrillic, Arabic, a CJK ideograph below and one above U+9FAF, or Cyrillic
\* with kana
TitleInputs ==
  {<< >>, <<97, 98>>, <<12354>>, <<54620>>, <<1103>>, <<1593>>, <<20013>>,
   <<40896>>, <<1103, 12354>>}

\* the country of the owner as fetchChannelDetails maps it: "" when the
\* lookup failed, knows no such owner or holds no country for it
CountryInputs == {"", "JP"}

Snippets ==
  {[defaultLanguage |-> l, defaultAudioLanguage |-> a, title |-> t] :
     l \in LanguageInputs, a \in LanguageInputs, t \in TitleInputs}

\* one item is parsed and the owner's country is merged into its record
ParseItem ==
  /\ parsed = << >>
  /\ \E sn \in Snippets, country \in CountryInputs :
       parsed' = [snippet |-> sn, country |-> country, video |-> ParsedRecord(sn),
                  merged |-> WithCountry(ParsedRecord(sn), country)]
  /\ UNCHANGED <<eviction, outsidePure>>

NextParse == ParseItem

SpecParse == Init /\ [][NextParse]_vars

(***************************************************************************)
(* The content script: autoScroll.  The page is the environment: every     *)
(* iteration extractVideoIds() finds as many identifiers as the document   *)
(* holds links for at that moment.                                         *)
(***************************************************************************)
maxScrollAttempts == 20
noNewVideosThreshold == 3

\* the check of the stall counter left out
StallNeverStops(count) == FALSE

\* noNewVideosCount >= noNewVideosThreshold
StallStops(count) == count >= noNewVideosThreshold

\* currentCount < targetCount && scrollAttempts < maxScrollAttempts
KeepScrolling(l) ==
  l.currentCount < l.targetCount /\ l.scrollAttempts < maxScrollAttempts

\* autoScroll(targetCount) is called
CallAutoScroll(maxTarget) ==
  /\ scroll.pc = "idle"
  /\ \E t \in 1..maxTarget :
       scroll' = [pc |-> "loop", targetCount |-> t, previousCount |-> 0,
                  currentCount |-> 0, scrollAttempts |-> 0, noNewVideosCount |-> 0,
                  progress |-> 0, extracted |-> << >>]
  /\ UNCHANGED <<message, outsideScript>>

\* one pass of the loop body up to await sleep(800): the count is read,
\* CAPTURE_PROGRESS is sent, the stall counter is kept, the page is scrolled
ScrollIteration(maxCount) ==
  /\ scroll.pc = "loop"
  /\ KeepScrolling(scroll)
  /\ \E n \in 0..maxCount :
       LET stalled == IF n = scroll.previousCount THEN scroll.noNewVideosCount + 1 ELSE 0
           break == n = scroll.previousCount /\ StallStops(stalled)
       IN scroll' = [scroll EXCEPT
                       !.currentCount = n,
                       !.progress = @ + 1,
                       !.noNewVideosCount = stalled,
                       !.previousCount = IF break THEN @ ELSE n,
                       !.pc = IF break THEN "done" ELSE "sleep",
                       !.extracted = SliceTail(Append(@, n), noNewVideosThreshold + 1)]
  /\ UNCHANGED <<message, outsideScript>>

\* await sleep(800) resolves; scrollAttempts++
ScrollSleepDone ==
  /\ scroll.pc = "sleep"
  /\ scroll' = [scroll EXCEPT !.scrollAttempts = @ + 1, !.pc = "loop"]
  /\ UNCHANGED <<message, outsideScript>>

\* the loop condition fails: autoScroll returns currentCount
ScrollReturn ==
  /\ scroll.pc = "loop"
  /\ ~KeepScrolling(scroll)
  /\ scroll' = [scroll EXCEPT !.pc = "done"]
  /\ UNCHANGED <<message, outsideScript>>

NextScroll ==
  \/ CallAutoScroll(MaxScrollCount)
  \/ ScrollIteration(MaxScrollCount)
  \/ ScrollSleepDone
  \/ ScrollReturn

\* setTimeout fires: a pending sleep resolves and the loop goes on
SpecScroll == Init /\ [][NextScroll]_vars /\ WF_vars(NextScroll)

(***************************************************************************)
(* The service worker's router: handleMessage and its handlers, for one    *)
(* message at a time.  A handler is the list of the promises it has yet to *)
(* await; the store, the remote API and the browser are the environment.   *)
(***************************************************************************)
MessageTypes ==
  {"CAPTURE_VIDEOS", "CAPTURE_PROGRESS", "CAPTURE_ERROR", "GET_VIDEOS", "GET_SETTINGS",
   "TRIGGER_CAPTURE", "CLEAR_VIDEOS", "SAVE_SETTINGS", "VALIDATE_API_KEY", "OTHER"}

\* message.data: undefined, an object without the fields the handler reads
\* (or with an empty videoIds), or an object with them
DataShapes == {"absent", "empty", "full"}

\* the promises a handler awaits when each one resolves to what lets it go
\* on; none when it answers or throws before its first await
Awaits(type, data) ==
  CASE type = "CAPTURE_VIDEOS" ->
         IF data = "full" THEN <<"getSettings", "fetchVideoDetails", "saveVideos">>
         ELSE << >>
    [] type = "GET_VIDEOS" ->
         <<"getVideos", "getLastCaptureTimestamp", "getAvailableLanguages",
           "getAvailableCountries", "getStorageUsage">>
    [] type = "GET_SETTINGS" -> <<"getSettings", "getFilters", "getStorageUsage">>
    [] type = "TRIGGER_CAPTURE" -> <<"getSettings", "tabs.query">>
    [] type = "CLEAR_VIDEOS" -> <<"clearVideos">>
    [] type = "SAVE_SETTINGS" ->
         IF data = "full" THEN <<"saveSettings", "saveFilters">> ELSE << >>
    [] type = "VALIDATE_API_KEY" ->
         IF data = "absent" THEN << >> ELSE <<"validateApiKey">>
    [] OTHER -> << >>

\* how an awaited promise can settle: validateApiKey catches its own
\* errors; getSettings can resolve without an API key, fetchVideoDetails
\* with no records, tabs.query with no tab
Outcomes(m) ==
  LET awaited == Head(m.awaiting)
  IN (IF awaited = "validateApiKey" THEN {} ELSE {"rejects"})
       \cup {"resolves"}
       \cup (IF \/ awaited = "getSettings" /\ m.type # "GET_SETTINGS"
                \/ awaited \in {"fetchVideoDetails", "tabs.query"}
             THEN {"resolves empty"} ELSE {})

\* sendResponse(...) and the handler returns
Responds(m) == [m EXCEPT !.sent = @ + 1, !.awaiting = << >>, !.returned = TRUE]

\* the listener gets a message and handleMessage runs to its first await,
\* or to the end when the handler answers or throws before it
ReceiveMessage(maxMessages) ==
  /\ message.returned
  /\ message.number < maxMessages
  /\ \E type \in MessageTypes, data \in DataShapes :
       LET m == [type |-> type, data |-> data, awaiting |-> Awaits(type, data),
                 sent |-> 0, returned |-> FALSE,
                 number |-> message.number + 1]
       IN message' = IF m.awaiting = << >> THEN Responds(m) ELSE m
  /\ UNCHANGED <<scroll, outsideScript>>

\* the promise a handler awaits settles: a rejection reaches a catch that
\* answers; a missing API key or an empty result is answered at once; with
\* no YouTube tab one is created and its load awaited; else the handler
\* goes on, and answers after its last await
AwaitSettles ==
  /\ message.awaiting # << >>
  /\ Head(message.awaiting) # "tab complete"
  /\ \E outcome \in Outcomes(message) :
       LET awaited == Head(message.awaiting)
           rest == Tail(message.awaiting)
       IN message' =
            IF outcome = "rejects" THEN Responds(message)
            ELSE IF awaited = "tabs.query"
            THEN [message EXCEPT !.awaiting =
                    IF outcome = "resolves empty"
                    THEN <<"tabs.create", "tab complete", "tabs.sendMessage">>
                    ELSE <<"tabs.update", "tabs.sendMessage">>]
            ELSE IF outcome = "resolves empty" \/ rest = << >> THEN Responds(message)
            ELSE [message EXCEPT !.awaiting = rest]
  /\ UNCHANGED <<scroll, outsideScript>>

\* chrome.tabs.onUpdated reports the created tab as complete
TabCompletes ==
  /\ message.awaiting # << >>
  /\ Head(message.awaiting) = "tab complete"
  /\ message' = [message EXCEPT !.awaiting = Tail(@)]
  /\ UNCHANGED <<scroll, outsideScript>>

NextMessage ==
  \/ ReceiveMessage(MaxMessages)
  \/ AwaitSettles
  \/ TabCompletes

\* the promises of the store, of fetch and of the chrome API settle; whether
\* a created tab ever finishes loading is up to the user and the network
SpecMessage == Init /\ [][NextMessage]_vars /\ WF_vars(AwaitSettles)

(***************************************************************************)
(* Properties.                                                             *)
(***************************************************************************)
Range(s) == {s[i] : i \in DOMAIN s}

\* saveVideos has written the collection and has not yet returned
Saved == pc \in {"s_history", "s_historyWrite"}

\* C1: no two records of the persisted collection have the same identifier,
\* whatever merges and resets have run; a batch that repeats an identifier
\* leaves one record of it.
UniqueIds ==
  \A i, j \in DOMAIN videos : videos[i].id = videos[j].id => i = j

\* a batch of several records merged into the empty collection left fewer
\* records than it had, below the ceiling: it repeated an identifier
WitnessUniqueIds ==
  /\ pc = "s_history"
  /\ existingVideos = << >>
  /\ newLength > Len(videos)
  /\ Len(videos) < maxVideos
  /\ Len(videos) >= 1

\* C2: the persisted collection is ordered by capture timestamp, newest
\* first: of two adjacent records the earlier has the greater or equal
\* timestamp.
SortedNewestFirst ==
  \A i \in 1..Len(videos) - 1 : videos[i].capturedAt >= videos[i + 1].capturedAt

\* a merge put newly captured records in front of older stored ones
WitnessSortedNewestFirst ==
  /\ pc = "s_history"
  /\ existingVideos # << >>
  /\ Len(videos) > Len(existingVideos)
  /\ videos[1].capturedAt > videos[Len(videos)].capturedAt

\* C3: once a merge has written the collection, it holds at most
\* maxStoredVideos records (the setting read in that merge, 500 when none is
\* stored), and they are the newest ones: a prefix of the sorted merge.
CountCeiling ==
  Saved =>
    /\ maxVideos = MaxVideos(getSettings(settings))
    /\ settings = << >> => maxVideos = 500
    /\ Len(videos) <= maxVideos
    /\ videos = SubSeq(uniqueVideos, 1, Len(videos))

\* a merge whose deduplicated list was longer than the ceiling
WitnessCountCeiling ==
  /\ pc = "s_history"
  /\ Len(uniqueVideos) > maxVideos
  /\ Len(videos) = maxVideos

\* C4: when a merge has triggered the byte-size eviction, the collection it
\* leaves in the store is the evicted one: the newest
\* floor(count * 60 / usagePercent) records of the count-truncated list.
EvictedCollectionPersisted ==
  (Saved /\ OverThreshold(usage)) =>
    videos = SliceHead(videosToStore, TargetCount(Len(videosToStore), usage))

\* C5: after the eviction write of a merge, the usage percentage of the
\* store is at most the percentage measured before the eviction.
EvictionNeverIncreasesUsage ==
  (pc = "s_save" /\ OverThreshold(usage)) =>
    UsagePercentage(BytesInUse(videos)) <= usage

\* the first record of identifier id in the list s
FirstOf(id, s) ==
  s[CHOOSE i \in DOMAIN s : s[i].id = id /\ \A j \in 1..i - 1 : s[j].id # id]

\* C6: a record of the merge input whose identifier is already stored does
\* not replace the stored record, which is kept with all its fields; of
\* several input records of one new identifier the first is the one merged;
\* and the collection written holds merged records only.
ExistingRecordWins ==
  [][/\ (pc = "s_getVideos" /\ pc' = "s_getSettings") =>
          \A r \in Range(uniqueVideos') :
             IF \E e \in Range(videos) : e.id = r.id
             THEN r \in Range(videos)
             ELSE r = FirstOf(r.id, newVideos)
     /\ (pc = "s_save" /\ pc' = "s_history") =>
          /\ Range(videos') \subseteq Range(uniqueVideos)
          /\ \A r \in Range(videos') :
                (\E e \in Range(existingVideos) : e.id = r.id)
                   => r \in Range(existingVideos)]_vars

\* one record was captured again: the store holds its old copy, unchanged
WitnessExistingRecordWins ==
  /\ pc = "s_history"
  /\ newLength = 1
  /\ existingVideos # << >>
  /\ videos = existingVideos
  /\ lastCapture > videos[1].capturedAt + 1

\* C7: every capture cycle the service worker has finished has sent the feed
\* pages exactly one terminal notification, capture-complete or
\* capture-error, whatever its outcome.
OneTerminalNotification ==
  (pc = "idle" /\ responses > 0) => Len(broadcasts) = 1

Last(s) == s[Len(s)]

\* C8: the capture history changes inside a merge only at the write of
\* updateCaptureHistory, which comes after the collection has been written
\* and appends one entry at the end, whose count is the length of the
\* merge's input list.
HistoryRecordsInputCount ==
  [][/\ (pc = "h_fetch" /\ pc' = "s_getVideos") => newLength' = Len(newVideos')
     /\ (pc # "idle" /\ history' # history) =>
          /\ pc = "s_historyWrite"
          /\ videos = videosToStore
          /\ lastCapture > 0
          /\ Len(history') = Min(Len(history) + 1, HISTORY_LIMIT)
          /\ Last(history').videoCount = newLength
          /\ Last(history').timestamp >= lastCapture
          /\ \A i \in 1..Len(history') - 1 :
                history'[i] = history[i + Len(history) + 1 - Len(history')]
     /\ (pc = "s_historyWrite" /\ pc' = "idle"
           /\ broadcasts' = <<"CAPTURE_COMPLETE">>) => history' # history]_vars

\* the first merge took two records of one identifier: the history counts
\* two, the collection holds one
WitnessHistoryRecordsInputCount ==
  /\ pc = "idle"
  /\ broadcasts = <<"CAPTURE_COMPLETE">>
  /\ Len(history) = 1
  /\ history[1].videoCount = 2
  /\ Len(videos) = 1

\* C9: the capture history holds the last 50 entries appended, oldest first:
\* never more than 50, in the order of their timestamps, and after 51
\* merges from empty the entries of merges 2 to 51.
HistoryKeepsNewestFifty ==
  /\ Len(history) <= 50
  /\ \A i \in 1..Len(history) - 1 : history[i].timestamp <= history[i + 1].timestamp
  /\ history = SliceTail(recorded, 50)
  /\ Len(recorded) = 51 => history = SubSeq(recorded, 2, 51)

\* 51 single-record merges have run since the history was empty
WitnessHistoryKeepsNewestFifty ==
  /\ pc = "idle"
  /\ Len(recorded) = 51
  /\ Len(history) = 50
  /\ \A i \in DOMAIN recorded : recorded[i].videoCount = 1
  /\ history[1].timestamp > recorded[1].timestamp

\* C10: a step of the idle service worker that changes the collection, the
\* last-capture timestamp or the capture history is the reset, and it
\* leaves all three reset at once: empty, 0 and empty.
ClearResetsAllAtOnce ==
  [][(pc = "idle" /\ <<videos, lastCapture, history>>' # <<videos, lastCapture, history>>)
       => (videos' = << >> /\ lastCapture' = 0 /\ history' = << >>)]_vars

\* the store was reset after a capture had completed
WitnessClearResetsAllAtOnce ==
  /\ pc = "idle"
  /\ broadcasts = <<"CAPTURE_COMPLETE">>
  /\ merges > 0
  /\ videos = << >>
  /\ lastCapture = 0
  /\ history = << >>

\* the identifiers of the merge input were all stored already: the merged
\* list has no identifier the collection read by the merge had not
AllKnown ==
  /\ newLength > 0
  /\ {r.id : r \in Range(uniqueVideos)} \subseteq {r.id : r \in Range(existingVideos)}

\* C11 as stated: a merge of records whose identifiers are all stored
\* already leaves the number of persisted records unchanged.
MergeOfKnownKeepsCount ==
  (Saved /\ AllKnown) => Len(videos) = Len(existingVideos)

\* C11: a merge of records whose identifiers are all stored already leaves
\* the persisted records as they were when there are at most maxStoredVideos
\* of them (the setting read by the merge), and otherwise cuts the
\* collection to its newest maxStoredVideos records.
MergeOfKnownKeepsCountUnderCeiling ==
  (Saved /\ AllKnown) =>
    /\ videos = SliceHead(existingVideos, maxVideos)
    /\ Len(existingVideos) <= maxVideos => Len(videos) = Len(existingVideos)

\* two stored records were captured again, below the ceiling: two are stored
WitnessMergeOfKnownKeepsCount ==
  /\ pc = "s_history"
  /\ AllKnown
  /\ newLength = 2
  /\ Len(existingVideos) = 2
  /\ Len(existingVideos) <= maxVideos
  /\ Len(videos) = 2

\* the detail requests issued so far, in the order of their issue
DetailRequests == SelectSeq(requests, LAMBDA q : q.endpoint = "videos")

RECURSIVE Flatten(_)
Flatten(ss) == IF ss = << >> THEN << >> ELSE Head(ss) \o Flatten(Tail(ss))

\* C12: a call of fetchVideoDetails with N identifiers and a credential has
\* issued ceil(N / 50) detail requests when it returns, never more on the
\* way, each of 1 to 50 identifiers, whether chunks failed or not.
ChunkingIssuesCeilRequests ==
  /\ \A k \in DOMAIN DetailRequests :
        Len(DetailRequests[k].ids) >= 1 /\ Len(DetailRequests[k].ids) <= 50
  /\ Len(DetailRequests) <= (Len(videoIds) + 49) \div 50
  /\ (fpc = "done" /\ apiKey # "") =>
        Len(DetailRequests) = (Len(videoIds) + 49) \div 50

\* 101 identifiers: three detail requests, of which at least one failed
WitnessChunkingIssuesCeilRequests ==
  /\ fpc = "done"
  /\ Len(videoIds) = 101
  /\ Len(DetailRequests) = 3
  /\ Len(succeeded) < 3

\* C13: fetchVideoDetails throws only for a missing credential; when it
\* returns, every chunk has been requested, in order, whatever failed
\* before it, and the records returned are those of the detail requests
\* that succeeded, in chunk order and in the order of each response.
FailedChunksAreSkipped ==
  /\ fpc = "threw" => (apiKey = "" /\ requests = << >>)
  /\ (fpc = "done" /\ videoIds # << >>) =>
        /\ [k \in DOMAIN DetailRequests |-> DetailRequests[k].ids] = chunks
        /\ [k \in DOMAIN allVideos |-> allVideos[k].id] = Flatten(succeeded)

\* of two chunks the first failed: the records returned are the second's
WitnessFailedChunksAreSkipped ==
  /\ fpc = "done"
  /\ Len(chunks) = 2
  /\ Len(succeeded) = 1
  /\ allVideos # << >>
  /\ \A k \in DOMAIN allVideos : allVideos[k].id > 50

\* C14 as stated: every capture that ends while the credential is empty
\* ends with the missing-credential error, the store as it was.
EmptyCredentialFailsMissingCredential ==
  [][(/\ getSettings(settings).apiKey = ""
      /\ responses' > 0
      /\ <<responses, response>>' # <<responses, response>>)
       => (response' = "API key not configured" /\ store' = store)]_vars

\* C14: a capture of one or more identifiers that finds the credential
\* empty ends there with the missing-credential error, reported to the
\* sender and to the feed pages, the collection, the last-capture timestamp
\* and the capture history as they were; fetchVideoDetails, the only place
\* of network requests, is entered with a credential only.
MissingCredentialStopsCapture ==
  [][/\ (pc = "h_getSettings" /\ getSettings(settings).apiKey = "") =>
          /\ pc' = "idle"
          /\ response' = "API key not configured"
          /\ responses' = 1
          /\ broadcasts' = <<"CAPTURE_ERROR">>
          /\ <<videos, lastCapture, history>>' = <<videos, lastCapture, history>>
          /\ merges' = merges
     /\ pc' = "h_fetch" => getSettings(settings').apiKey # ""]_vars

\* the credential was cleared after a capture had been stored: the next
\* capture failed and the store still holds the records
WitnessMissingCredentialStopsCapture ==
  /\ pc = "idle"
  /\ response = "API key not configured"
  /\ broadcasts = <<"CAPTURE_ERROR">>
  /\ getSettings(settings).apiKey = ""
  /\ videos # << >>
  /\ lastCapture > 0
  /\ history # << >>

\* a query has returned
Queried == qpc \in {"store", "feed"}

\* the three filters, as the query contract states them
Matches(v, f) ==
  /\ f.selectedLanguages = {}
       \/ {v.defaultLanguage, v.defaultAudioLanguage} \cap f.selectedLanguages # {}
  /\ f.selectedCountries = {} \/ v.regionCode \in f.selectedCountries
  /\ \/ f.searchQuery = << >>
     \/ StrIncludes(toLowerCase(v.title), toLowerCase(f.searchQuery))
     \/ StrIncludes(toLowerCase(v.channelTitle), toLowerCase(f.searchQuery))

\* C15: the result of a query holds a record of the collection exactly when
\* the record passes the language filter, the country filter and the search
\* filter.
QueryKeepsExactlyMatches ==
  Queried =>
    \A v \in Range(collection) : v \in Range(result) <=> Matches(v, filters)

\* the order a sort key asks for: a has to come before b
StrictlyBefore(sortBy, a, b) ==
  CASE sortBy = "views" -> a.viewCount > b.viewCount
    [] sortBy = "title" -> localeCompare(a.title, b.title) < 0
    [] OTHER -> a.capturedAt > b.capturedAt

PositionIn(vs, v) == CHOOSE i \in DOMAIN vs : vs[i] = v

\* C16: the result of a query is a list of records of the collection, each
\* once, with every record that passes the three filters, in the order of
\* its sort key (capture time descending for 'date', for no key and for an
\* unknown key, view count descending for 'views', title ascending for
\* 'title'), records of equal key in the order they have in the collection.
QuerySortsStably ==
  Queried =>
    /\ Range(result) \subseteq Range(collection)
    /\ Cardinality(Range(result)) = Len(result)
    /\ \A v \in Range(collection) : Matches(v, filters) => v \in Range(result)
    /\ \A i, j \in DOMAIN result :
          i < j =>
            /\ ~StrictlyBefore(filters.sortBy, result[j], result[i])
            /\ ~StrictlyBefore(filters.sortBy, result[i], result[j]) =>
                  PositionIn(collection, result[i]) < PositionIn(collection, result[j])

\* getVideos with an unknown sort key returned three records by capture
\* time, two of one time in collection order, against their view counts
WitnessQuerySortsStably ==
  /\ qpc = "store"
  /\ filters.sortBy = "rating"
  /\ Len(result) = 3
  /\ result[1].capturedAt = result[2].capturedAt
  /\ result[2].capturedAt > result[3].capturedAt
  /\ result[1].viewCount < result[2].viewCount
  /\ result[2].viewCount < result[3].viewCount

\* C17: at most one capture-and-merge cycle is in flight at any time: the
\* handling of two CAPTURE_VIDEOS requests never overlaps.
AtMostOneCycleInFlight ==
  Cardinality({k \in DOMAIN captures : InFlight(captures[k])}) <= 1

\* the identifiers of the records of a list
IdsOf(vs) == {vs[n].id : n \in DOMAIN vs}

\* call i has written the collection
Written(i) == inv[i].pc \in {"s_history", "s_historyWrite", "done"}

\* calls i and j both read the collection before either wrote it (no write
\* lies between their reads), i wrote it first, j wrote it last and nothing
\* has written it since
Interleaved(i, j) ==
  /\ i # j
  /\ Written(i) /\ Written(j)
  /\ inv[i].readAfter = inv[j].readAfter
  /\ inv[i].wroteAs < inv[j].wroteAs
  /\ writes = inv[j].wroteAs

\* the records call i merged that call j neither read nor merged itself
MergedOnlyBy(i, j) ==
  {r \in Range(inv[i].newVideos) :
     r.id \notin IdsOf(inv[j].existingVideos) \cup IdsOf(inv[j].newVideos)}

\* C18: when two merges interleave, both reading the collection before
\* either writes it, the later write replaces the earlier one: the persisted
\* collection is the later call's merge of what it read, and omits every
\* record only the earlier call merged.
InterleavedMergeLosesUpdate ==
  \A i, j \in Invocations :
    Interleaved(i, j) =>
      /\ videos = inv[j].videosToStore
      /\ \A r \in MergedOnlyBy(i, j) : r.id \notin IdsOf(videos)

\* two merges have interleaved, a record of the earlier one is missing from
\* the persisted collection, and neither the count ceiling nor the eviction
\* removed it
WitnessInterleavedMergeLosesUpdate ==
  \E i, j \in Invocations :
    /\ Interleaved(i, j)
    /\ MergedOnlyBy(i, j) # {}
    /\ \A r \in MergedOnlyBy(i, j) : r.id \notin IdsOf(videos)
    /\ Len(videos) < MaxVideos(getSettings(settings))
    /\ inv[i].videosToStore = inv[i].uniqueVideos
    /\ inv[j].videosToStore = inv[j].uniqueVideos
    /\ inv[i].evictedVideos = inv[i].videosToStore
    /\ inv[j].evictedVideos = inv[j].videosToStore

\* the least number of batches of BATCH_SIZE that hold n videos
Batches50(n) == CHOOSE k \in 0..n : k * BATCH_SIZE >= n /\ (k = 0 \/ (k - 1) * BATCH_SIZE < n)

\* C19: estimateQuotaUsage(n) is ceil(n / 50) * 2 for every n >= 0: 2 for
\* 50 videos, 4 for 51 and 4 for 100.
QuotaIsTwicePerBatch ==
  videoCount # << >> =>
    /\ quotaUsage = Batches50(videoCount[1]) * 2
    /\ (videoCount[1] = 50 => quotaUsage = 2)
    /\ (videoCount[1] = 51 => quotaUsage = 4)
    /\ (videoCount[1] = 100 => quotaUsage = 4)

\* the estimate of 51 videos has been asked for: two batches, four units
WitnessQuotaIsTwicePerBatch == videoCount = <<51>> /\ quotaUsage = 4

\* validateApiKey has returned
Validated == vpc \in {"returned", "replied"}

\* the lookup completed with a success status and a body with an item
ItemFound(r) ==
  /\ r.fetch = "resolved"
  /\ r.status \in 200..299
  /\ r.body.json = "object"
  /\ r.body.items >= 1

\* C20: validateApiKey returns true exactly when the lookup completes with a
\* success status and a body of at least one item; a network failure or an
\* unparsable body gives false, and no exception leaves the function.
ValidTrueIffItemFound ==
  Validated =>
    /\ (isValid = "true") <=> ItemFound(testResponse)
    /\ (testResponse.fetch = "rejected" \/ testResponse.body.json = "unparsable")
         => isValid = "false"
    /\ isValid # "threw"

\* a key has been validated against a failing network, and the handler
\* has answered that it is invalid
WitnessValidTrueIffItemFound ==
  /\ vpc = "replied"
  /\ testResponse.fetch = "rejected"
  /\ isValid = "false"
  /\ validation.success
  /\ validation.message = "API key is invalid"

\* C21: when eviction triggers on n records, the target count is never
\* larger than n, and it is zero only when n is 0 or 1, whatever the usage
\* above the threshold.
TargetCountWithinCount ==
  eviction # << >> =>
    /\ eviction.targetCount <= eviction.count
    /\ eviction.targetCount >= 0
    /\ (eviction.targetCount = 0 => eviction.count \in {0, 1})

\* two records with the usage barely above the threshold: one is kept
WitnessTargetCountWithinCount ==
  /\ eviction # << >>
  /\ eviction.count = 2
  /\ eviction.percentage = WARNING_THRESHOLD_PCT * 100 + 1
  /\ eviction.targetCount = 1

\* a store read or write of saveVideos rejects at this step
MergeFails ==
  /\ pc \in {"s_getVideos", "s_getSettings", "s_usage", "s_evict", "s_save",
              "s_history", "s_historyWrite"}
  /\ response' = "store error"

\* C22: when a store read or write fails inside a merge, the capture is
\* reported as failed and never as complete, and the collection, the
\* last-capture timestamp and the capture history are all as they were
\* before the merge.
FailedMergeLeavesStoreAsBefore ==
  [][MergeFails =>
       /\ Last(broadcasts') = "CAPTURE_ERROR"
       /\ "CAPTURE_COMPLETE" \notin Range(broadcasts')
       /\ IF pc = "s_getVideos"
          THEN UNCHANGED <<videos, lastCapture, history>>
          ELSE <<videos', lastCapture', history'>> = before]_vars

\* C23: a record that stays in the persisted collection keeps the capture
\* timestamp it was ingested with: no step, and so no later capture of the
\* same identifier, changes it.
CaptureTimestampNeverChanges ==
  [][\A i \in DOMAIN videos, j \in DOMAIN videos' :
       videos'[j].id = videos[i].id => videos'[j].capturedAt = videos[i].capturedAt]_vars

\* a capture of two identifiers that were both stored already has been
\* merged and written: the stored records carry their earlier timestamps
WitnessCaptureTimestampNeverChanges ==
  /\ pc = "s_historyWrite"
  /\ newLength = 2
  /\ Len(videos) = 2
  /\ IdsOf(videos) = IdsOf(existingVideos)
  /\ \A i \in DOMAIN videos : videos[i].capturedAt < lastCapture - 1

\* the first source of a chain that is there, << >> when none is
FirstAvailable(chain) ==
  IF \A k \in DOMAIN chain : chain[k] = << >> THEN << >>
  ELSE chain[CHOOSE k \in DOMAIN chain :
               /\ chain[k] # << >>
               /\ \A j \in 1..(k - 1) : chain[j] = << >>]

\* the region the static table holds for a language code, 'unknown' when
\* it holds none or the code is absent
TableRegion(language) ==
  IF \E e \in languageToRegion : e[1] = language
  THEN (CHOOSE e \in languageToRegion : e[1] = language)[2]
  ELSE "unknown"

\* C24: the region code of a parsed record is the country of its owner when
\* the owner lookup returns one; otherwise it is the entry of the static
\* language-to-region table for the record's language, and 'unknown' when
\* that language has no entry or is absent.
RegionIsCountryElseTableEntryOfLanguage ==
  parsed # << >> =>
    parsed.merged.regionCode =
      IF parsed.country # "" THEN parsed.country
      ELSE TableRegion(parsed.video.defaultLanguage)

\* C25 as stated: both language codes of a parsed record are the normalized
\* first available source of one chain: explicit content language, explicit
\* audio language, title-script heuristic, 'unknown'.
BothLanguagesFollowContentChain ==
  parsed # << >> =>
    LET sn == parsed.snippet
        first == FirstAvailable(<<sn.defaultLanguage, sn.defaultAudioLanguage,
                                  detectLanguageFromTitle(sn.title), Unknown>>)
    IN /\ parsed.video.defaultLanguage = normalizeLanguageCode(first)
       /\ parsed.video.defaultAudioLanguage = normalizeLanguageCode(first)

\* C25: the content language of a parsed record is the normalized first
\* available source of the chain explicit content language, explicit audio
\* language, title-script heuristic (ja, ko, ru, ar, zh), 'unknown'; its
\* audio language is the normalized first available source of the chain
\* explicit audio language, explicit content language, 'unknown'.
EachLanguageFollowsItsOwnChain ==
  parsed # << >> =>
    LET sn == parsed.snippet
        heuristic == detectLanguageFromTitle(sn.title)
    IN /\ heuristic \in {<< >>, <<106, 97>>, <<107, 111>>, <<114, 117>>,
                         <<97, 114>>, <<122, 104>>}
       /\ parsed.video.defaultLanguage =
            normalizeLanguageCode(
              FirstAvailable(<<sn.defaultLanguage, sn.defaultAudioLanguage,
                               heuristic, Unknown>>))
       /\ parsed.video.defaultAudioLanguage =
            normalizeLanguageCode(
              FirstAvailable(<<sn.defaultAudioLanguage, sn.defaultLanguage,
                               Unknown>>))

\* a snippet with content language en and audio language ja: the record's
\* content language is en and its audio language ja
WitnessEachLanguageFollowsItsOwnChain ==
  /\ parsed # << >>
  /\ parsed.snippet.defaultLanguage = <<101, 110>>
  /\ parsed.snippet.defaultAudioLanguage = <<106, 97>>
  /\ parsed.video.defaultLanguage = <<101, 110>>
  /\ parsed.video.defaultAudioLanguage = <<106, 97>>

\* 'unknown', or a non-empty code with no '-' and no capital letter
BaseForm(code) ==
  \/ code = Unknown
  \/ /\ code # << >>
     /\ \A k \in DOMAIN code : code[k] # 45 /\ code[k] \notin 65..90

\* C26: for every input code normalizeLanguageCode returns 'unknown' or a
\* non-empty lower-case base subtag without '-', applying it twice gives
\* what applying it once gives, and so both language codes of a record have
\* that form.
NormalizedCodeIsBaseFormAndStable ==
  parsed # << >> =>
    /\ \A code \in {parsed.snippet.defaultLanguage, parsed.snippet.defaultAudioLanguage} :
         /\ BaseForm(normalizeLanguageCode(code))
         /\ normalizeLanguageCode(normalizeLanguageCode(code)) = normalizeLanguageCode(code)
    /\ BaseForm(parsed.video.defaultLanguage)
    /\ BaseForm(parsed.video.defaultAudioLanguage)

\* the owner lookup failed: a network error, a status that is not ok, or a
\* body that cannot be read
LookupFailed(r) == r.status # "ok" \/ r.body # "items"

\* C27: when the owner lookup of a chunk fails, all records of the chunk
\* join the result with the region codes they were parsed with, the call
\* goes on, and nothing is thrown.
FailedLookupKeepsParsedRecords ==
  [][fpc = "channels" /\ LookupFailed(channelResponse') =>
       /\ allVideos' = allVideos \o parseApiResponse(Last(succeeded), now)
       /\ fpc' \in {"sleep", "videos", "done"}
       /\ thrown' = ""]_vars

\* a call for one chunk has returned all its records after the lookup
\* failed with a status that is not ok and a body that names a country
WitnessFailedLookupKeepsParsedRecords ==
  /\ fpc = "done"
  /\ channelResponse # << >>
  /\ channelResponse.status = "not ok"
  /\ channelResponse.country = "JP"
  /\ Len(videoIds) = 2
  /\ Len(allVideos) = 2
  /\ \A k \in DOMAIN allVideos : allVideos[k].regionCode = "unknown"
  /\ thrown = ""

\* C29: fetchVideoDetails never issues more requests for N identifiers than
\* estimateQuotaUsage(N): a request for owner details comes right after the
\* detail request of its chunk, and there are no more of them than detail
\* requests that succeeded.
RequestsWithinQuotaEstimate ==
  /\ Len(requests) <= estimateQuotaUsage(Len(videoIds))
  /\ \A k \in DOMAIN requests :
       requests[k].endpoint = "channels" =>
         k > 1 /\ requests[k - 1].endpoint = "videos"
  /\ Len(requests) - Len(DetailRequests) <= Len(succeeded)

\* a call for three chunks has returned after six requests, as many as the
\* estimate for its identifiers
WitnessRequestsWithinQuotaEstimate ==
  /\ fpc = "done"
  /\ Len(chunks) = 3
  /\ Len(requests) = 6
  /\ Len(requests) = estimateQuotaUsage(Len(videoIds))

\* the counts of the last iterations, after the count before them (none
\* extracted before the first)
Counts == IF scroll.progress <= noNewVideosThreshold
          THEN <<0>> \o scroll.extracted ELSE scroll.extracted

\* the last three iterations each found no more than the one before
NotGrownThrice ==
  /\ Len(Counts) = noNewVideosThreshold + 1
  /\ \A j \in 2..Len(Counts) : Counts[j] <= Counts[j - 1]

\* the last three iterations each found as many as the one before
UnchangedThrice ==
  /\ Len(Counts) = noNewVideosThreshold + 1
  /\ \A j \in 2..Len(Counts) : Counts[j] = Counts[j - 1]

\* a call makes at most 20 iterations with one progress update each, and
\* returns
ScrollIsBounded ==
  /\ [](/\ scroll.progress <= maxScrollAttempts
        /\ scroll.scrollAttempts <= maxScrollAttempts
        /\ scroll.progress \in {scroll.scrollAttempts, scroll.scrollAttempts + 1})
  /\ (scroll.pc = "loop" ~> scroll.pc = "done")

EveryMessageAnsweredExactlyOnce ==
  /\ [](message.sent <= 1)
  /\ [](message.number > 0 /\ message.returned => message.sent = 1)
  /\ \A n \in 1..MaxMessages :
       message.number = n ~> (message.number = n /\ message.sent = 1)

====
